---- MODULE Spec2Model ----
(***************************************************************************)
(* Run agent of the workflow engine (internal/agent/agent.go): one DAG     *)
(* invocation end to end.  The agent has a main task (Agent.Run), a        *)
(* status-writer task, a delayed first-status task and the node tasks of   *)
(* its scheduler.  A second run of the same DAG (same socket address) by   *)
(* another process is the peer: it runs the same Agent.Run, observed at    *)
(* the points where it touches what the two processes share (the engine's  *)
(* answer, the history store, the socket); its other steps are local to    *)
(* its process and commute with the agent's.                               *)
(* The scheduler, the execution graph, the engine, the history store and   *)
(* the socket server are collaborators of the agent; they are modelled     *)
(* from the design document where their code is not part of the sources.   *)
(***************************************************************************)
EXTENDS Integers, Sequences, FiniteSets, TLC

\* ------------------------------------------------------------------ bounds

NumSteps == 2
MaxClock == 2
\* DAG.MaxCleanUpTime ranges over 0..MaxCleanUp seconds
MaxCleanUp == 7
\* fire times and start times of the cron jobs lie in minutes 0..MaxMinute
MaxMinute == 4
\* events waiting on the watcher's events channel
MaxQueue == 1
\* DAG.RestartWait ranges over 0..MaxRestartWait seconds
MaxRestartWait == 2
\* history records of earlier runs are 0..MaxAgeDays whole days old
MaxAgeDays == 2
\* command strings are 0..MaxCmdLen runes long
MaxCmdLen == 5

\* the clock reading when the graph is started; later readings are StartTime..MaxClock
StartTime == 1

\* ------------------------------------------------------------------ domain

Agents == {"a1"}
Steps == 1..NumSteps

Statuses == {"None", "Running", "Error", "Cancel", "Success"}
TerminalStatuses == {"Success", "Error", "Cancel"}
NodeTerminal == {"Success", "Error", "Cancel", "Skipped"}

SockAddr == "sock:/dags/d.yaml"

Err(kind, sock, step) == [wraps |-> kind, socket |-> sock, step |-> step]
NilErr == Err("nil", "", 0)
Pending == Err("pending", "", 0)

errFailedSetupUnixSocket == Err("errFailedSetupUnixSocket", "", 0)
errDAGIsAlreadyRunning == "errDAGIsAlreadyRunning"

SetupErrKinds ==
    {"errReqID", "errLog", "errGraph", "errEngine", errDAGIsAlreadyRunning,
     "errHistoryOpen", "errNewServer", "errTeeOpen", "errFailedSetupUnixSocket"}

VARIABLES
    dry,          \* Config.Dry of each agent
    depends,      \* Step.Depends: step -> set of steps
    pc,           \* position of the main task in Agent.Run
    ret,          \* value returned by Agent.Run (Pending until it returns)
    guardSeen,    \* what GetCurrentStatus answered in checkIsAlreadyRunning
    logState,     \* run log file: unopened / open / closed
    hist,         \* history-store session of the run
    latest,       \* whose session was opened last ("prev": an earlier run)
    peer,         \* the other run of the same DAG: position, record, Schedule entered
    prevStatus,   \* latest persisted status left by earlier runs
    sockOwner,    \* agent serving the control socket at SockAddr, or "free"
    scheduled,    \* number of Scheduler.Schedule invocations of the run
    node,         \* node states of the run's execution graph
    pendingDone,  \* nodes blocked on `done <- node`
    canceled,     \* scheduler's canceled flag
    lastErr,      \* scheduler's run error
    startAt,      \* graph.StartAt (0: zero time)
    finishAt,     \* graph.FinishAt (0: zero time)
    finished,     \* Agent.finished
    doneClosed,   \* close(done) has run
    wpc,          \* position of the status-writer task
    wsnap,        \* snapshot held by the status-writer task
    fpc,          \* position of the first-status task
    fsnap,        \* snapshot held by the first-status task
    sl,           \* the signal loop of Agent.signal: position, timers, signals sent
    http,         \* last request handled by Agent.HandleHTTP and its response
    job,          \* a cron job (jobImpl), what it read and what Start did
    er,           \* the entry reader: DAG map, DAGs directory, watcher and its channels
    cmd,          \* the restart command: position, what it saw and what it sent
    db,           \* the history records of a DAG and the run that purges them
    gr,           \* a scheduler run over a graph with lifecycle handlers or a retry seed
    tm,           \* a timestamp, its formatted text and what parsing the text gives
    cx,           \* the context of a run: the caller's, and the one handed to Schedule
    cu,           \* a command string and what the command parsers made of it
    ee            \* an error handed to encodeError and what the client gets

vars ==
    <<dry, depends, pc, ret, guardSeen, logState, hist, latest, peer,
      prevStatus, sockOwner, scheduled, node, pendingDone, canceled, lastErr,
      startAt, finishAt, finished, doneClosed, wpc, wsnap, fpc, fsnap,
      sl, http, job, er, cmd, db, gr, tm, cx, cu, ee>>

cfgVars == <<dry, depends>>
extVars == <<er, cmd, db, gr, tm, cx, cu, ee>>
auxVars == <<sl, http, job, er, cmd, db, gr, tm, cx, cu, ee>>
agentVars ==
    <<dry, depends, pc, ret, guardSeen, logState, hist, latest, peer,
      prevStatus, sockOwner, scheduled, node, pendingDone, canceled, lastErr,
      startAt, finishAt, finished, doneClosed, wpc, wsnap, fpc, fsnap>>
mainVars == <<pc, ret, guardSeen, logState>>
storeVars == <<hist, latest, prevStatus, peer>>
schedVars == <<scheduled, node, pendingDone, canceled, lastErr, startAt, finishAt>>
writerVars == <<wpc, wsnap>>
firstVars == <<fpc, fsnap>>

NoSnap == [st |-> "None", ver |-> 0]

\* no signal loop has been started; no request has been handled; no job is at work
SlIdle ==
    [pc |-> "idle", sig |-> "none", allowOverride |-> FALSE, mcu |-> 0, now |-> 0, tickAt |-> 0,
     quiesced |-> FALSE, sent |-> "none", kills |-> 0, resent |-> 0, by |-> "none"]
HttpIdle == [method |-> "none", path |-> "", code |-> 0, body |-> "", st |-> "None", ver |-> 0]
JobIdle == [pc |-> "off"]
ErIdle == [wpc |-> "off"]
CmdIdle == [pc |-> "off"]
DbIdle == [pc |-> "off"]
GrIdle == [pc |-> "off"]
TmIdle == [pc |-> "off"]
CxIdle == [pc |-> "off"]
CuIdle == [pc |-> "off"]
EeIdle == [pc |-> "off"]

\* every subsystem but x is absent
IdleBut(x) ==
    /\ IF x # "er" THEN er = ErIdle ELSE TRUE
    /\ IF x # "cmd" THEN cmd = CmdIdle ELSE TRUE
    /\ IF x # "db" THEN db = DbIdle ELSE TRUE
    /\ IF x # "gr" THEN gr = GrIdle ELSE TRUE
    /\ IF x # "tm" THEN tm = TmIdle ELSE TRUE
    /\ IF x # "cx" THEN cx = CxIdle ELSE TRUE
    /\ IF x # "cu" THEN cu = CuIdle ELSE TRUE
    /\ IF x # "ee" THEN ee = EeIdle ELSE TRUE

ExtIdle == IdleBut("none")
NoSession == [state |-> "unopened", st |-> "NoRecord", ver |-> 0]

\* ------------------------------------------------- execution graph, scheduler

\* ExecutionGraph.IsStarted
IsStarted(a) == startAt[a] # 0

\* ExecutionGraph.IsRunning: some node is running
IsRunning(a) == \E n \in Steps : node[a][n] = "Running"

\* Scheduler.Status: the aggregate status of the graph
SchedulerStatus(a) ==
    IF canceled[a] /\ ~(\A n \in Steps : node[a][n] = "Success") THEN "Cancel"
    ELSE IF ~IsStarted(a) THEN "None"
    ELSE IF IsRunning(a) THEN "Running"
    ELSE IF lastErr[a] # NilErr THEN "Error"
    ELSE "Success"

\* Agent.Status with a graph that has started but reports None
StatusStartedIsRunning(s, started) == IF started THEN "Running" ELSE s

\* Agent.Status: the status field of the snapshot
StatusField(s, started) == IF s = "None" /\ started THEN "Running" ELSE s

AgentStatus(a) == StatusField(SchedulerStatus(a), IsStarted(a))

\* how far the graph has got: every change of the graph a snapshot can show
\* (start, a node admitted, a node terminal, cancel, finish) adds one
Progress(a) ==
    Cardinality({n \in Steps : node[a][n] # "None"})
    + Cardinality({n \in Steps : node[a][n] \in NodeTerminal})
    + (IF IsStarted(a) THEN 1 ELSE 0)
    + (IF canceled[a] THEN 1 ELSE 0)
    + (IF finishAt[a] # 0 THEN 1 ELSE 0)

\* a.Status(): the snapshot a task holds, its status field and the graph's progress
Snapshot(a) == [st |-> AgentStatus(a), ver |-> Progress(a)]

\* Scheduler.Cancel: the scheduler stops admitting nodes and signals the running
\* ones, which reach a terminal state on their own
SchedulerCancel(a) == canceled' = [canceled EXCEPT ![a] = TRUE]

\* ----------------------------------------------------- engine, history, socket

\* HistoryStore: the status a reader of the latest run's record gets
LatestStatus ==
    LET st == IF latest = "prev" THEN prevStatus
              ELSE IF latest = "peer" THEN peer.st
              ELSE hist[latest].st
    IN IF st = "NoRecord" THEN "None" ELSE st

\* Engine.GetCurrentStatus: the live agent's answer on the control socket
\* (HandleHTTP forces Running), else the latest persisted status
GetCurrentStatus == IF sockOwner # "free" THEN "Running" ELSE LatestStatus

\* HistoryStore.Write of a snapshot by agent a; a write to a session that is
\* not open fails and persists nothing, as does a write that fails (ok = FALSE)
HistoryWrite(a, snap, ok) ==
    hist' = [hist EXCEPT ![a] =
               IF hist[a].state = "open" /\ ok
               THEN [state |-> "open", st |-> snap.st, ver |-> snap.ver]
               ELSE hist[a]]

\* HistoryStore.Close
HistoryClose(h) == IF h.state = "open" THEN [h EXCEPT !.state = "closed"] ELSE h

\* sock.Server.Shutdown
Shutdown(a) == IF sockOwner = a THEN "free" ELSE sockOwner

\* Agent.closeLog
CloseLog(l) == IF l = "open" THEN "closed" ELSE l

\* ------------------------------------------------------------ Agent.Run

Return(a, e) ==
    /\ pc' = [pc EXCEPT ![a] = "returned"]
    /\ ret' = [ret EXCEPT ![a] = e]

Goto(a, l) ==
    /\ pc' = [pc EXCEPT ![a] = l]
    /\ UNCHANGED ret

\* Agent.setup: request id, run log file, scheduler, graph
Setup(a) ==
    /\ pc[a] = "setup"
    /\ \E r \in {"ok", "errReqID", "errLog", "errGraph"} :
        /\ logState' = [logState EXCEPT ![a] =
                          IF r \in {"ok", "errGraph"} THEN "open" ELSE logState[a]]
        /\ IF r = "ok" THEN Goto(a, "precond") ELSE Return(a, Err(r, "", 0))
    /\ UNCHANGED <<auxVars, cfgVars, guardSeen, storeVars, sockOwner, schedVars, finished,
                   doneClosed, writerVars, firstVars>>

\* Agent.Run with the dry-run branch after the guard
AfterPreconditionsAlwaysGuard(d) == "guard"

\* Agent.Run: the dry-run branch
AfterPreconditions(d) == IF d THEN "dry" ELSE "guard"

\* Agent.checkPreconditions without the cancel of the scheduler
CheckPreconditionsNoCancel(a) ==
    /\ pc[a] = "precond"
    /\ \E dagPre \in BOOLEAN, match \in BOOLEAN :
        IF dagPre /\ ~match
        THEN Return(a, Err("errPrecondition", "", 0))
        ELSE Goto(a, AfterPreconditions(dry[a]))
    /\ UNCHANGED <<auxVars, cfgVars, guardSeen, logState, storeVars, sockOwner, schedVars,
                   finished, doneClosed, writerVars, firstVars>>

\* Agent.checkPreconditions
CheckPreconditions(a) ==
    /\ pc[a] = "precond"
    /\ \E dagPre \in BOOLEAN, match \in BOOLEAN :
        IF dagPre /\ ~match
        THEN /\ SchedulerCancel(a)
             /\ Return(a, Err("errPrecondition", "", 0))
        ELSE /\ Goto(a, AfterPreconditions(dry[a]))
             /\ UNCHANGED canceled
    /\ UNCHANGED <<auxVars, cfgVars, guardSeen, logState, storeVars, sockOwner, scheduled,
                   node, pendingDone, lastErr, startAt, finishAt, finished,
                   doneClosed, writerVars, firstVars>>

\* Agent.checkIsAlreadyRunning with the test dropped
GuardNeverRejects(status) == FALSE

\* Agent.checkIsAlreadyRunning: the test of the current status
GuardRejects(status) == status # "None"

\* Agent.checkIsAlreadyRunning
CheckIsAlreadyRunning(a) ==
    /\ pc[a] = "guard"
    /\ \E engineOk \in BOOLEAN :
        IF ~engineOk
        THEN /\ guardSeen' = [guardSeen EXCEPT ![a] = "error"]
             /\ Return(a, Err("errEngine", "", 0))
        ELSE /\ guardSeen' = [guardSeen EXCEPT ![a] = GetCurrentStatus]
             /\ IF GuardRejects(GetCurrentStatus)
                THEN Return(a, Err(errDAGIsAlreadyRunning, SockAddr, 0))
                ELSE Goto(a, "db")
    /\ UNCHANGED <<auxVars, cfgVars, logState, storeVars, sockOwner, schedVars, finished,
                   doneClosed, writerVars, firstVars>>

\* Agent.setupDatabase: purge old records (a failure is only logged), open the session
SetupDatabase(a) ==
    /\ pc[a] = "db"
    /\ \E purged \in BOOLEAN, openOk \in BOOLEAN :
        /\ prevStatus' = IF purged THEN "None" ELSE prevStatus
        /\ IF openOk
           THEN /\ hist' = [hist EXCEPT ![a] = [NoSession EXCEPT !.state = "open"]]
                /\ latest' = a
                /\ Goto(a, "sock")
           ELSE /\ UNCHANGED <<hist, latest>>
                /\ Return(a, Err("errHistoryOpen", "", 0))
    /\ UNCHANGED <<auxVars, peer, cfgVars, guardSeen, logState, sockOwner, schedVars, finished,
                   doneClosed, writerVars, firstVars>>

\* Agent.setupSocketServer
SetupSocketServer(a) ==
    /\ pc[a] = "sock"
    /\ \E ok \in BOOLEAN :
        IF ok THEN Goto(a, "tee") ELSE Return(a, Err("errNewServer", "", 0))
    /\ UNCHANGED <<auxVars, cfgVars, guardSeen, logState, storeVars, sockOwner, schedVars,
                   finished, doneClosed, writerVars, firstVars>>

\* Agent.Run: open the log tee
TeeOpen(a) ==
    /\ pc[a] = "tee"
    /\ \E ok \in BOOLEAN :
        IF ok THEN Goto(a, "write0") ELSE Return(a, Err("errTeeOpen", "", 0))
    /\ UNCHANGED <<auxVars, cfgVars, guardSeen, logState, storeVars, sockOwner, schedVars,
                   finished, doneClosed, writerVars, firstVars>>

\* Agent.Run: the status written before the socket is served
WriteInitial(a) ==
    /\ pc[a] = "write0"
    /\ \E ok \in BOOLEAN : HistoryWrite(a, Snapshot(a), ok)
    /\ Goto(a, "listen")
    /\ UNCHANGED <<auxVars, cfgVars, guardSeen, logState, latest, prevStatus, peer, sockOwner,
                   schedVars, finished, doneClosed, writerVars, firstVars>>

\* Agent.Run going on whatever the listen result is
ListenIgnoringError(a) ==
    /\ pc[a] = "listen"
    /\ \E ok \in BOOLEAN :
        sockOwner' = IF ok /\ sockOwner = "free" THEN a ELSE sockOwner
    /\ Goto(a, "spawn")
    /\ UNCHANGED <<auxVars, cfgVars, guardSeen, logState, storeVars, schedVars, finished,
                   doneClosed, writerVars, firstVars>>

\* Agent.Run: serve the control socket and wait for the listen result; on a
\* failure the deferred shutdown, history close and log close run
Listen(a) ==
    /\ pc[a] = "listen"
    /\ \E ok \in BOOLEAN :
        IF ok /\ sockOwner = "free"
        THEN /\ sockOwner' = a
             /\ Goto(a, "spawn")
             /\ UNCHANGED <<hist, logState>>
        ELSE /\ sockOwner' = Shutdown(a)
             /\ hist' = [hist EXCEPT ![a] = HistoryClose(hist[a])]
             /\ logState' = [logState EXCEPT ![a] = CloseLog(logState[a])]
             /\ Return(a, errFailedSetupUnixSocket)
    /\ UNCHANGED <<auxVars, cfgVars, guardSeen, latest, prevStatus, peer, schedVars, finished,
                   doneClosed, writerVars, firstVars>>

\* Agent.Run: make the done channel, start the status-writer and first-status tasks
SpawnTasks(a) ==
    /\ pc[a] = "spawn"
    /\ wpc' = [wpc EXCEPT ![a] = "recv"]
    /\ fpc' = [fpc EXCEPT ![a] = "sleep"]
    /\ Goto(a, "schedule")
    /\ UNCHANGED <<auxVars, cfgVars, guardSeen, logState, storeVars, sockOwner, schedVars,
                   finished, doneClosed, wsnap, fsnap>>

\* Scheduler.Schedule is entered: the graph is started
ScheduleStart(a) ==
    /\ scheduled' = [scheduled EXCEPT ![a] = @ + 1]
    /\ startAt' = [startAt EXCEPT ![a] = StartTime]
    /\ UNCHANGED <<node, pendingDone, canceled, lastErr, finishAt>>

\* Agent.Run: the call of Scheduler.Schedule
ScheduleCall(a) ==
    /\ pc[a] = "schedule"
    /\ ScheduleStart(a)
    /\ Goto(a, "scheduling")
    /\ UNCHANGED <<auxVars, cfgVars, guardSeen, logState, storeVars, sockOwner, finished,
                   doneClosed, writerVars, firstVars>>

\* Agent.dryRun: start the step reporter and call Scheduler.Schedule
DryRun(a) ==
    /\ pc[a] = "dry"
    /\ wpc' = [wpc EXCEPT ![a] = "recv"]
    /\ ScheduleStart(a)
    /\ Goto(a, "scheduling")
    /\ UNCHANGED <<auxVars, cfgVars, guardSeen, logState, storeVars, sockOwner, finished,
                   doneClosed, wsnap, firstVars>>

\* ------------------------------------------------------ Scheduler.Schedule

Accepting == {"Success", "Skipped"}

\* a node taken to be ready whatever its dependencies
ReadyIgnoringDepends(a, n) == node[a][n] = "None"

\* ExecutionGraph.Ready: a node whose dependencies are all accepting-terminal
Ready(a, n) ==
    /\ node[a][n] = "None"
    /\ \A d \in depends[n] : node[a][d] \in Accepting

\* the scheduler admits no node once cancelled or once a node has failed
Admitting(a) == ~canceled[a] /\ lastErr[a] = NilErr

\* a ready node is admitted and runs on its own task
Admit(a, n) ==
    /\ pc[a] = "scheduling"
    /\ Admitting(a)
    /\ Ready(a, n)
    /\ node' = [node EXCEPT ![a][n] = "Running"]
    /\ UNCHANGED <<auxVars, cfgVars, mainVars, storeVars, sockOwner, scheduled, pendingDone,
                   canceled, lastErr, startAt, finishAt, finished, doneClosed,
                   writerVars, firstVars>>

\* outcomes of Node.Execute: a dry run executes nothing; a signalled node may end Cancel
Outcomes(a) ==
    IF dry[a] THEN {"Success"}
    ELSE {"Success", "Error"} \cup (IF Admitting(a) THEN {} ELSE {"Cancel"})

\* a running node reaches a terminal state and blocks on `done <- node`;
\* the first failure is kept as the run's error
NodeFinish(a, n) ==
    /\ pc[a] = "scheduling"
    /\ node[a][n] = "Running"
    /\ \E r \in Outcomes(a) :
        /\ node' = [node EXCEPT ![a][n] = r]
        /\ lastErr' = [lastErr EXCEPT ![a] =
                          IF r = "Error" /\ lastErr[a] = NilErr
                          THEN Err("errStep", "", n) ELSE lastErr[a]]
    /\ pendingDone' = [pendingDone EXCEPT ![a] = @ \cup {n}]
    /\ UNCHANGED <<auxVars, cfgVars, mainVars, storeVars, sockOwner, scheduled, canceled,
                   startAt, finishAt, finished, doneClosed, writerVars,
                   firstVars>>

\* the receiver of the done channel leaving its loop once the graph is cancelled
DeliverUntilCancel(a, n) ==
    /\ n \in pendingDone[a]
    /\ wpc[a] = "recv"
    /\ ~doneClosed[a]
    /\ ~canceled[a]
    /\ pendingDone' = [pendingDone EXCEPT ![a] = @ \ {n}]
    /\ wpc' = [wpc EXCEPT ![a] = IF dry[a] THEN "recv" ELSE "snap"]
    /\ UNCHANGED <<auxVars, cfgVars, mainVars, storeVars, sockOwner, scheduled, node,
                   canceled, lastErr, startAt, finishAt, finished, doneClosed, wsnap,
                   firstVars>>

\* `done <- node` meets the receive of the status-writer task; the dry run's
\* receiver only takes a snapshot and reports the step
Deliver(a, n) ==
    /\ n \in pendingDone[a]
    /\ wpc[a] = "recv"
    /\ ~doneClosed[a]
    /\ pendingDone' = [pendingDone EXCEPT ![a] = @ \ {n}]
    /\ wpc' = [wpc EXCEPT ![a] = IF dry[a] THEN "recv" ELSE "snap"]
    /\ UNCHANGED <<auxVars, cfgVars, mainVars, storeVars, sockOwner, scheduled, node, canceled,
                   lastErr, startAt, finishAt, finished, doneClosed, wsnap,
                   firstVars>>

\* Scheduler.Schedule returns: no node runs, every completion was handed over,
\* nothing can be admitted; nodes that never ran are cancelled; the graph is finished
ScheduleReturn(a) ==
    /\ pc[a] = "scheduling"
    /\ ~IsRunning(a)
    /\ pendingDone[a] = {}
    /\ ~(Admitting(a) /\ \E n \in Steps : Ready(a, n))
    /\ node' = [node EXCEPT ![a] =
                   [n \in Steps |-> IF node[a][n] = "None" THEN "Cancel" ELSE node[a][n]]]
    /\ \E t \in startAt[a]..MaxClock : finishAt' = [finishAt EXCEPT ![a] = t]
    /\ Goto(a, IF dry[a] THEN "dry_report" ELSE "final")
    /\ UNCHANGED <<auxVars, cfgVars, guardSeen, logState, storeVars, sockOwner, scheduled,
                   pendingDone, canceled, lastErr, startAt, finished, doneClosed,
                   writerVars, firstVars>>

\* Agent.Signal, once setup has made the scheduler and until Run returns: the
\* signal reaches the scheduler, which cancels the graph
Signal(a) ==
    /\ pc[a] \notin {"setup", "returned"}
    /\ ~canceled[a]
    /\ SchedulerCancel(a)
    /\ UNCHANGED <<auxVars, cfgVars, mainVars, storeVars, sockOwner, scheduled, node,
                   pendingDone, lastErr, startAt, finishAt, finished,
                   doneClosed, writerVars, firstVars>>

\* ------------------------------------------------- Agent.Run after Schedule

\* Agent.Run: the finished status is taken and the final status is written
FinalWrite(a) ==
    /\ pc[a] = "final"
    /\ \E ok \in BOOLEAN :
        HistoryWrite(a, Snapshot(a), ok)
    /\ Goto(a, "closing")
    /\ UNCHANGED <<auxVars, cfgVars, guardSeen, logState, latest, prevStatus, peer, sockOwner,
                   schedVars, finished, doneClosed, writerVars, firstVars>>

\* Agent.Run: summary report, mail (failures are logged), history store closed
ReportAndClose(a) ==
    /\ pc[a] = "closing"
    /\ hist' = [hist EXCEPT ![a] = HistoryClose(hist[a])]
    /\ Goto(a, "finishing")
    /\ UNCHANGED <<auxVars, cfgVars, guardSeen, logState, latest, prevStatus, peer, sockOwner,
                   schedVars, finished, doneClosed, writerVars, firstVars>>

\* Agent.Run: a.finished.Store(true)
StoreFinished(a) ==
    /\ pc[a] = "finishing"
    /\ finished' = [finished EXCEPT ![a] = TRUE]
    /\ Goto(a, "returning")
    /\ UNCHANGED <<auxVars, cfgVars, guardSeen, logState, storeVars, sockOwner, schedVars,
                   doneClosed, writerVars, firstVars>>

\* Agent.Run returning the error of the deferred close when there is one
RunResultOrCloseError(e, closeOk) == IF closeOk THEN e ELSE Err("errClose", "", 0)

\* Agent.Run: the returned value
RunResult(e, closeOk) == e

\* Agent.Run returns lastErr; the deferred calls run: close(done), socket
\* shutdown, history store close, log close
RunReturn(a) ==
    /\ pc[a] = "returning"
    /\ doneClosed' = [doneClosed EXCEPT ![a] = TRUE]
    /\ sockOwner' = Shutdown(a)
    /\ hist' = [hist EXCEPT ![a] = HistoryClose(hist[a])]
    /\ logState' = [logState EXCEPT ![a] = CloseLog(logState[a])]
    /\ \E closeOk \in BOOLEAN : Return(a, RunResult(lastErr[a], closeOk))
    /\ UNCHANGED <<auxVars, cfgVars, guardSeen, latest, prevStatus, peer, schedVars, finished,
                   writerVars, firstVars>>

\* Agent.dryRun: report the summary, close(done), return lastErr
DryReturn(a) ==
    /\ pc[a] = "dry_report"
    /\ doneClosed' = [doneClosed EXCEPT ![a] = TRUE]
    /\ Return(a, lastErr[a])
    /\ UNCHANGED <<auxVars, cfgVars, guardSeen, logState, storeVars, sockOwner, schedVars,
                   finished, writerVars, firstVars>>

\* ------------------------------------------------------ status-writer task

\* status := a.Status()
WriterSnap(a) ==
    /\ wpc[a] = "snap"
    /\ wsnap' = [wsnap EXCEPT ![a] = Snapshot(a)]
    /\ wpc' = [wpc EXCEPT ![a] = "write"]
    /\ UNCHANGED <<auxVars, cfgVars, mainVars, storeVars, sockOwner, schedVars, finished,
                   doneClosed, firstVars>>

\* historyStore.Write(status), then the step report; back to the receive
WriterWrite(a) ==
    /\ wpc[a] = "write"
    /\ \E ok \in BOOLEAN : HistoryWrite(a, wsnap[a], ok)
    /\ wpc' = [wpc EXCEPT ![a] = "recv"]
    /\ wsnap' = [wsnap EXCEPT ![a] = NoSnap]
    /\ UNCHANGED <<auxVars, cfgVars, mainVars, latest, prevStatus, peer, sockOwner, schedVars,
                   finished, doneClosed, firstVars>>

\* ------------------------------------------------------- first-status task

\* the sleep is over: the finished flag is tested
FirstWake(a) ==
    /\ fpc[a] = "sleep"
    /\ fpc' = [fpc EXCEPT ![a] = IF finished[a] THEN "done" ELSE "snap"]
    /\ UNCHANGED <<auxVars, cfgVars, mainVars, storeVars, sockOwner, schedVars, finished,
                   doneClosed, writerVars, fsnap>>

\* a.Status() is evaluated
FirstSnap(a) ==
    /\ fpc[a] = "snap"
    /\ fsnap' = [fsnap EXCEPT ![a] = Snapshot(a)]
    /\ fpc' = [fpc EXCEPT ![a] = "write"]
    /\ UNCHANGED <<auxVars, cfgVars, mainVars, storeVars, sockOwner, schedVars, finished,
                   doneClosed, writerVars>>

\* historyStore.Write of that status
FirstWrite(a) ==
    /\ fpc[a] = "write"
    /\ \E ok \in BOOLEAN : HistoryWrite(a, fsnap[a], ok)
    /\ fpc' = [fpc EXCEPT ![a] = "done"]
    /\ fsnap' = [fsnap EXCEPT ![a] = NoSnap]
    /\ UNCHANGED <<auxVars, cfgVars, mainVars, latest, prevStatus, peer, sockOwner, schedVars,
                   finished, doneClosed, writerVars>>

\* ------------------------------------------------------------ specification

\* Step.Depends of the DAGs explored: independent steps, or a chain
DependsChoices ==
    {[n \in Steps |-> {}], [n \in Steps |-> IF n > 1 THEN {n - 1} ELSE {}]}

\* the state after agent.New, before anything has run
Fresh ==
    /\ ret = [a \in Agents |-> Pending]
    /\ guardSeen = [a \in Agents |-> "unqueried"]
    /\ logState = [a \in Agents |-> "unopened"]
    /\ hist = [a \in Agents |-> NoSession]
    /\ latest = "prev"
    /\ sockOwner = "free"
    /\ scheduled = [a \in Agents |-> 0]
    /\ node = [a \in Agents |-> [n \in Steps |-> "None"]]
    /\ pendingDone = [a \in Agents |-> {}]
    /\ canceled = [a \in Agents |-> FALSE]
    /\ lastErr = [a \in Agents |-> NilErr]
    /\ startAt = [a \in Agents |-> 0]
    /\ finishAt = [a \in Agents |-> 0]
    /\ finished = [a \in Agents |-> FALSE]
    /\ doneClosed = [a \in Agents |-> FALSE]
    /\ wpc = [a \in Agents |-> "off"]
    /\ wsnap = [a \in Agents |-> NoSnap]
    /\ fpc = [a \in Agents |-> "off"]
    /\ fsnap = [a \in Agents |-> NoSnap]
    /\ http = HttpIdle

\* one run of a DAG, dry or not, over any history left by earlier runs
Init ==
    /\ Fresh
    /\ pc = [a \in Agents |-> "setup"]
    /\ dry \in [Agents -> BOOLEAN]
    /\ depends \in DependsChoices
    /\ prevStatus \in Statuses
    /\ peer = [pc |-> "absent", st |-> "NoRecord", scheduled |-> FALSE]
    /\ sl = SlIdle
    /\ job = JobIdle
    /\ ExtIdle

\* two runs of the same DAG started together
InitTwo ==
    /\ Fresh
    /\ pc = [a \in Agents |-> "setup"]
    /\ dry \in [Agents -> BOOLEAN]
    /\ depends = [n \in Steps |-> IF n > 1 THEN {n - 1} ELSE {}]
    /\ prevStatus = "None"
    /\ peer = [pc |-> "guard", st |-> "NoRecord", scheduled |-> FALSE]
    /\ sl = SlIdle
    /\ job = JobIdle
    /\ ExtIdle

Next ==
    \E a \in Agents :
        \/ Setup(a)
        \/ CheckPreconditions(a)
        \/ CheckIsAlreadyRunning(a)
        \/ SetupDatabase(a)
        \/ SetupSocketServer(a)
        \/ TeeOpen(a)
        \/ WriteInitial(a)
        \/ Listen(a)
        \/ SpawnTasks(a)
        \/ ScheduleCall(a)
        \/ DryRun(a)
        \/ \E n \in Steps : Admit(a, n)
        \/ \E n \in Steps : NodeFinish(a, n)
        \/ \E n \in Steps : Deliver(a, n)
        \/ ScheduleReturn(a)
        \/ Signal(a)
        \/ FinalWrite(a)
        \/ ReportAndClose(a)
        \/ StoreFinished(a)
        \/ RunReturn(a)
        \/ DryReturn(a)
        \/ WriterSnap(a)
        \/ WriterWrite(a)
        \/ FirstWake(a)
        \/ FirstSnap(a)
        \/ FirstWrite(a)

Spec == Init /\ [][Next]_vars

\* ------------------------------------------------- the peer run (Agent.Run)

PeerAt(l) == peer.pc = l

\* the peer's setup, preconditions and single-instance guard
PeerGuard ==
    /\ PeerAt("guard")
    /\ \E ok \in BOOLEAN :
        peer' = [peer EXCEPT !.pc = IF ok /\ ~GuardRejects(GetCurrentStatus)
                                     THEN "db" ELSE "returned"]
    /\ UNCHANGED <<auxVars, cfgVars, mainVars, hist, latest, prevStatus, sockOwner, schedVars,
                   finished, doneClosed, writerVars, firstVars>>

\* the peer's setupDatabase, socket server, log tee and first status write
PeerOpen ==
    /\ PeerAt("db")
    /\ \E purged \in BOOLEAN, ok \in BOOLEAN, written \in BOOLEAN :
        /\ prevStatus' = IF purged THEN "None" ELSE prevStatus
        /\ IF ok
           THEN /\ latest' = "peer"
                /\ peer' = [peer EXCEPT !.pc = "listen",
                                         !.st = IF written THEN "None" ELSE "NoRecord"]
           ELSE /\ UNCHANGED latest
                /\ peer' = [peer EXCEPT !.pc = "returned"]
    /\ UNCHANGED <<auxVars, cfgVars, mainVars, hist, sockOwner, schedVars, finished,
                   doneClosed, writerVars, firstVars>>

\* the peer serves the socket and enters Scheduler.Schedule, or fails to listen
PeerListen ==
    /\ PeerAt("listen")
    /\ \E ok \in BOOLEAN :
        IF ok /\ sockOwner = "free"
        THEN /\ sockOwner' = "peer"
             /\ peer' = [peer EXCEPT !.pc = "scheduling", !.scheduled = TRUE]
        ELSE /\ UNCHANGED sockOwner
             /\ peer' = [peer EXCEPT !.pc = "returned"]
    /\ UNCHANGED <<auxVars, cfgVars, mainVars, hist, latest, prevStatus, schedVars, finished,
                   doneClosed, writerVars, firstVars>>

\* the peer's run ends: its last persisted status, socket shut down
PeerReturn ==
    /\ PeerAt("scheduling")
    /\ \E s \in Statuses :
        peer' = [peer EXCEPT !.pc = "returned",
                             !.st = IF s = "None" THEN peer.st ELSE s]
    /\ sockOwner' = Shutdown("peer")
    /\ UNCHANGED <<auxVars, cfgVars, mainVars, hist, latest, prevStatus, schedVars, finished,
                   doneClosed, writerVars, firstVars>>

NextTwo ==
    \/ Next
    \/ PeerGuard
    \/ PeerOpen
    \/ PeerListen
    \/ PeerReturn

SpecTwo == InitTwo /\ [][NextTwo]_vars

\* ------------------------------------------------------- Agent.signal loop

\* the re-send period and the sleep of the loop's default case, in seconds
TickSeconds == 5
SleepSeconds == 3

\* the run the signal reaches: Schedule has been entered and the first step runs
InitRunning ==
    /\ dry = [a \in Agents |-> FALSE]
    /\ depends = [n \in Steps |-> IF n > 1 THEN {n - 1} ELSE {}]
    /\ pc = [a \in Agents |-> "scheduling"]
    /\ ret = [a \in Agents |-> Pending]
    /\ guardSeen = [a \in Agents |-> "None"]
    /\ logState = [a \in Agents |-> "open"]
    /\ hist = [a \in Agents |-> [state |-> "open", st |-> "None", ver |-> 0]]
    /\ latest = "a1"
    /\ peer = [pc |-> "absent", st |-> "NoRecord", scheduled |-> FALSE]
    /\ prevStatus = "None"
    /\ sockOwner = "a1"
    /\ scheduled = [a \in Agents |-> 1]
    /\ node = [a \in Agents |-> [n \in Steps |-> IF n = 1 THEN "Running" ELSE "None"]]
    /\ pendingDone = [a \in Agents |-> {}]
    /\ canceled = [a \in Agents |-> FALSE]
    /\ lastErr = [a \in Agents |-> NilErr]
    /\ startAt = [a \in Agents |-> StartTime]
    /\ finishAt = [a \in Agents |-> 0]
    /\ finished = [a \in Agents |-> FALSE]
    /\ doneClosed = [a \in Agents |-> FALSE]
    /\ wpc = [a \in Agents |-> "recv"]
    /\ wsnap = [a \in Agents |-> NoSnap]
    /\ fpc = [a \in Agents |-> "sleep"]
    /\ fsnap = [a \in Agents |-> NoSnap]

\* Agent.Signal(sig) calls signal(sig, false); the stop route calls signal(SIGTERM, true)
SignalCalls ==
    {[sig |-> "SIGTERM", allowOverride |-> FALSE],
     [sig |-> "SIGINT", allowOverride |-> FALSE],
     [sig |-> "SIGTERM", allowOverride |-> TRUE]}

\* Agent.signal has been called on a running agent, for any DAG.MaxCleanUpTime
InitSignal ==
    /\ InitRunning
    /\ \E c \in SignalCalls, m \in 0..MaxCleanUp :
        sl = [SlIdle EXCEPT !.pc = "called", !.sig = c.sig,
                            !.allowOverride = c.allowOverride, !.mcu = m]
    /\ http = HttpIdle
    /\ job = JobIdle
    /\ ExtIdle

\* Agent.signal: the signal goes to the scheduler on its own task, which cancels
\* the graph and signals the running nodes; the two timers are started
SignalBegin(a) ==
    /\ sl.pc = "called"
    /\ SchedulerCancel(a)
    /\ sl' = [sl EXCEPT !.pc = "select", !.sent = sl.sig, !.now = 0,
                        !.tickAt = TickSeconds]
    /\ UNCHANGED <<extVars, http, job, cfgVars, mainVars, storeVars, sockOwner, scheduled, node,
                   pendingDone, lastErr, startAt, finishAt, finished, doneClosed,
                   writerVars, firstVars>>

\* Scheduler.Signal: no node runs any more, the scheduler's task offers `done <- true`
Quiesce ==
    /\ sl.pc = "select"
    /\ ~sl.quiesced
    /\ sl' = [sl EXCEPT !.quiesced = TRUE]
    /\ UNCHANGED <<extVars, http, job, agentVars>>

\* a second passes before the loop evaluates its select again
Elapse ==
    /\ sl.pc = "select"
    /\ sl.now < sl.mcu
    /\ sl' = [sl EXCEPT !.now = @ + 1]
    /\ UNCHANGED <<extVars, http, job, agentVars>>

\* the timeout timer set to the tick period
TimeoutFiredAtTick(now, mcu) == now >= TickSeconds

\* timeout := time.NewTimer(a.DAG.MaxCleanUpTime): <-timeout.C is ready
TimeoutFired(now, mcu) == now >= mcu

\* tick := time.NewTimer(5s), tick.Reset(5s): <-tick.C is ready
TickFired(now, tickAt) == now >= tickAt

\* the signal the tick case sends again
TickSignal(sig) == sig

\* case <-done: return
SelectDone ==
    /\ sl.pc = "select"
    /\ sl.quiesced
    /\ sl' = [sl EXCEPT !.pc = "returned", !.by = "done"]
    /\ UNCHANGED <<extVars, http, job, agentVars>>

\* case <-timeout.C: SIGKILL to the graph, return
SelectTimeout ==
    /\ sl.pc = "select"
    /\ TimeoutFired(sl.now, sl.mcu)
    /\ sl' = [sl EXCEPT !.pc = "returned", !.by = "timeout", !.sent = "SIGKILL",
                        !.kills = @ + 1]
    /\ UNCHANGED <<extVars, http, job, agentVars>>

\* case <-tick.C: the signal is sent again, the tick timer is reset
SelectTick ==
    /\ sl.pc = "select"
    /\ TickFired(sl.now, sl.tickAt)
    /\ sl' = [sl EXCEPT !.sent = TickSignal(sl.sig), !.resent = @ + 1,
                        !.tickAt = sl.now + TickSeconds]
    /\ UNCHANGED <<extVars, http, job, agentVars>>

\* default: no case is ready, the loop sleeps
SelectDefault ==
    /\ sl.pc = "select"
    /\ ~sl.quiesced
    /\ ~TimeoutFired(sl.now, sl.mcu)
    /\ ~TickFired(sl.now, sl.tickAt)
    /\ sl' = [sl EXCEPT !.now = @ + SleepSeconds]
    /\ UNCHANGED <<extVars, http, job, agentVars>>

NextSignal ==
    \/ \E a \in Agents : SignalBegin(a)
    \/ Quiesce
    \/ Elapse
    \/ SelectDone
    \/ SelectTimeout
    \/ SelectTick
    \/ SelectDefault

SpecSignal == InitSignal /\ [][NextSignal]_vars

\* ------------------------------------------------------ Agent.HandleHTTP

Methods == {"GET", "POST", "PUT"}
Paths == {"/status", "/status/", "/stop", "/stop/", "/stopx"}

\* statusRe = ^/status[/]?$ and stopRe = ^/stop[/]?$
StatusRe(path) == \E t \in {"", "/"} : path = "/status" \o t
StopRe(path) == \E t \in {"", "/"} : path = "/stop" \o t

\* case r.Method == http.MethodGet && statusRe.MatchString(r.URL.Path)
IsStatusRoute(method, path) == method = "GET" /\ StatusRe(path)

\* the stop route with the method test dropped
IsStopRouteAnyMethod(method, path) == StopRe(path)

\* case r.Method == http.MethodPost && stopRe.MatchString(r.URL.Path)
IsStopRoute(method, path) == method = "POST" /\ StopRe(path)

\* the status route answering the real status
ForcedStatusReal(st) == st

\* status.Status = scheduler.StatusRunning
ForcedStatus(st) == "Running"

Response(method, path, code, body, snap) ==
    [method |-> method, path |-> path, code |-> code, body |-> body,
     st |-> snap.st, ver |-> snap.ver]

\* the stop route running the signal loop to its end before it answers
HandleStopWaiting(a, method, path) ==
    /\ sl.pc = "idle"
    /\ SchedulerCancel(a)
    /\ sl' = [SlIdle EXCEPT !.pc = "returned", !.by = "done", !.quiesced = TRUE,
                            !.sig = "SIGTERM", !.sent = "SIGTERM",
                            !.allowOverride = TRUE, !.mcu = MaxCleanUp,
                            !.tickAt = TickSeconds]
    /\ http' = Response(method, path, 200, "OK", NoSnap)

\* the stop route: 200 "OK" is written, then the signal loop is started on a
\* task of its own (one loop is followed)
HandleStop(a, method, path) ==
    /\ sl.pc = "idle"
    /\ http' = Response(method, path, 200, "OK", NoSnap)
    /\ sl' = [SlIdle EXCEPT !.pc = "called", !.sig = "SIGTERM",
                            !.allowOverride = TRUE, !.mcu = MaxCleanUp]
    /\ UNCHANGED canceled

\* Agent.HandleHTTP, for every request the served socket can pass to it
HandleHTTP(a) ==
    /\ sockOwner = a
    /\ \E method \in Methods, path \in Paths :
        IF IsStatusRoute(method, path)
        THEN /\ http' = Response(method, path, 200, "status",
                                 [st |-> ForcedStatus(AgentStatus(a)), ver |-> Progress(a)])
             /\ UNCHANGED <<sl, canceled>>
        ELSE IF IsStopRoute(method, path)
        THEN HandleStop(a, method, path)
        ELSE /\ http' = Response(method, path, 404, "Not found", NoSnap)
             /\ UNCHANGED <<sl, canceled>>
    /\ UNCHANGED <<extVars, job, cfgVars, mainVars, storeVars, sockOwner, scheduled, node,
                   pendingDone, lastErr, startAt, finishAt, finished, doneClosed,
                   writerVars, firstVars>>

\* the run held at the moment a request or a stop arrives, one moment for each
\* status it can have while its socket is served: before Schedule (None), with
\* the first step running, and after Schedule returned with each outcome
InitServed ==
    \E k \in Statuses :
        /\ dry = [a \in Agents |-> FALSE]
        /\ depends = [n \in Steps |-> IF n > 1 THEN {n - 1} ELSE {}]
        /\ pc = [a \in Agents |->
                   IF k = "None" THEN "schedule"
                   ELSE IF k = "Running" THEN "scheduling" ELSE "final"]
        /\ ret = [a \in Agents |-> Pending]
        /\ guardSeen = [a \in Agents |-> "None"]
        /\ logState = [a \in Agents |-> "open"]
        /\ hist = [a \in Agents |-> [state |-> "open", st |-> "None", ver |-> 0]]
        /\ latest = "a1"
        /\ peer = [pc |-> "absent", st |-> "NoRecord", scheduled |-> FALSE]
        /\ prevStatus = "None"
        /\ sockOwner = "a1"
        /\ scheduled = [a \in Agents |-> IF k = "None" THEN 0 ELSE 1]
        /\ node = [a \in Agents |-> [n \in Steps |->
                     IF k \in {"None", "Success"} THEN k
                     ELSE IF n = 1 THEN k
                     ELSE IF k = "Running" THEN "None" ELSE "Cancel"]]
        /\ pendingDone = [a \in Agents |-> {}]
        /\ canceled = [a \in Agents |-> k = "Cancel"]
        /\ lastErr = [a \in Agents |-> IF k = "Error" THEN Err("errStep", "", 1) ELSE NilErr]
        /\ startAt = [a \in Agents |-> IF k = "None" THEN 0 ELSE StartTime]
        /\ finishAt = [a \in Agents |-> IF k \in TerminalStatuses THEN StartTime ELSE 0]
        /\ finished = [a \in Agents |-> FALSE]
        /\ doneClosed = [a \in Agents |-> FALSE]
        /\ wpc = [a \in Agents |-> "recv"]
        /\ wsnap = [a \in Agents |-> NoSnap]
        /\ fpc = [a \in Agents |-> "sleep"]
        /\ fsnap = [a \in Agents |-> NoSnap]

InitHTTP ==
    /\ InitServed
    /\ sl = SlIdle
    /\ http = HttpIdle
    /\ job = JobIdle
    /\ ExtIdle

\* the requests, and the start of the signal loop a stop request spawns
NextHTTP ==
    \/ \E a \in Agents : HandleHTTP(a)
    \/ \E a \in Agents : SignalBegin(a)

SpecHTTP == InitHTTP /\ [][NextHTTP]_vars

\* ------------------------------------------------------------ graceful stop

\* POST /stop arrives at the served socket
StopRequest(a) ==
    /\ sockOwner = a
    /\ HandleStop(a, "POST", "/stop")
    /\ UNCHANGED <<extVars, job, cfgVars, mainVars, storeVars, sockOwner, scheduled, node,
                   pendingDone, lastErr, startAt, finishAt, finished, doneClosed,
                   writerVars, firstVars>>

\* one run with no earlier history
InitStop ==
    /\ Fresh
    /\ pc = [a \in Agents |-> "setup"]
    /\ dry \in [Agents -> BOOLEAN]
    /\ depends = [n \in Steps |-> IF n > 1 THEN {n - 1} ELSE {}]
    /\ prevStatus = "None"
    /\ peer = [pc |-> "absent", st |-> "NoRecord", scheduled |-> FALSE]
    /\ sl = SlIdle
    /\ job = JobIdle
    /\ ExtIdle

\* the run, a signal through Agent.Signal (Signal) or through the stop route
NextStop ==
    \/ Next
    \/ \E a \in Agents : StopRequest(a)
    \/ \E a \in Agents : SignalBegin(a)

\* every task of the agent's process that can take a step eventually takes one,
\* and child processes exit (NodeFinish is a step of Next)
SpecStop ==
    /\ InitStop
    /\ [][NextStop]_vars
    /\ WF_vars(Next)
    /\ WF_vars(\E a \in Agents : SignalBegin(a))

\* ------------------------------------------------- cron job (jobImpl.Start)

\* time.Minute and time.Second, in seconds
Minute == 60
Second == 1

\* time.Time{}: the zero time lies before every other time
ZeroTime == 0

\* cron schedules: a job fires in minute m when m modulo the period is an offset
\* (every minute; every second minute; minutes 0 and 1 of every three)
Schedules ==
    {[period |-> 1, offs |-> {0}],
     [period |-> 2, offs |-> {0}],
     [period |-> 3, offs |-> {0, 1}]}

Fires(sch, m) == (m % sch.period) \in sch.offs

\* the fire times of a schedule
FireTimes(sch) == {m * Minute : m \in {k \in 0..(2 * MaxMinute + 3) : Fires(sch, k)}}

\* cron.Schedule.Next(t): the first fire time later than t
ScheduleNext(sch, t) ==
    CHOOSE f \in FireTimes(sch) :
        /\ f > t
        /\ \A g \in FireTimes(sch) : g > t => f <= g

\* model.Status.StartedAt as persisted: a formatted time (to the second), "-"
\* for the zero time, or text that is no time
StartedAts ==
    {[kind |-> "time", sec |-> m * Minute + x] : m \in 1..MaxMinute, x \in {0, 30}}
    \cup {[kind |-> "dash", sec |-> ZeroTime], [kind |-> "garbage", sec |-> ZeroTime]}

\* what GetLatestStatus can answer: no run yet, or the record of the latest run
LatestStatuses ==
    {[Status |-> "None", StartedAt |-> [kind |-> "dash", sec |-> ZeroTime]]}
    \cup {[Status |-> st, StartedAt |-> at] :
            st \in {"Running", "Success", "Error", "Cancel"},
            at \in {x \in StartedAts : x.kind # "dash"}}

\* stringutil.ParseTime
ParseTime(v) ==
    IF v.kind = "garbage" THEN [err |-> TRUE, t |-> ZeroTime]
    ELSE IF v.kind = "dash" THEN [err |-> FALSE, t |-> ZeroTime]
    ELSE [err |-> FALSE, t |-> v.sec]

\* Time.Truncate(d)
Truncate(t, d) == t - (t % d)

\* the Running guard dropped
JobIsRunningNever(st) == FALSE

\* latestStatus.Status == dagscheduler.StatusRunning
JobIsRunning(st) == st = "Running"

\* the test without the Equal case
IsFinishedAfterOnly(t, next) == t > next

\* latestStartedAt.After(job.Next) || job.Next.Equal(latestStartedAt)
IsFinished(t, next) == t > next \/ next = t

\* the previous fire time taken to be Next itself
PrevExecTimeIsNext(j) == j.Next

\* jobImpl.prevExecTime
PrevExecTime(j) ==
    LET nextNextRunTime == ScheduleNext(j.Schedule, j.Next + Second)
        duration == nextNextRunTime - j.Next
    IN j.Next - duration

\* the window test without the Equal case
InWindowAfterOnly(t, prev, next) == t > prev /\ t < next

\* (latestStartedAt.After(prev) || latestStartedAt.Equal(prev)) && latestStartedAt.Before(job.Next)
InWindow(t, prev, next) == (t > prev \/ t = prev) /\ t < next

\* jobImpl.skipIfSuccessful
SkipIfSuccessful(j, latestStartedAt) ==
    IF ~j.SkipIfSuccessful \/ j.latest.Status # "Success" THEN "nil"
    ELSE IF InWindow(latestStartedAt, PrevExecTime(j), j.Next) THEN "errJobSuccess"
    ELSE "nil"

\* a parse failure taken as a reason to skip
JobReadyParseFatal(j) ==
    IF JobIsRunning(j.latest.Status) THEN "errJobRunning"
    ELSE LET parsed == ParseTime(j.latest.StartedAt)
             latestStartedAt == Truncate(parsed.t, Minute)
         IN IF parsed.err THEN "errJobFinished"
            ELSE IF IsFinished(latestStartedAt, j.Next) THEN "errJobFinished"
            ELSE SkipIfSuccessful(j, latestStartedAt)

\* jobImpl.ready
JobReady(j) ==
    IF JobIsRunning(j.latest.Status) THEN "errJobRunning"
    ELSE LET parsed == ParseTime(j.latest.StartedAt)
             latestStartedAt == Truncate(parsed.t, Minute)
         IN IF parsed.err THEN "nil"
            ELSE IF IsFinished(latestStartedAt, j.Next) THEN "errJobFinished"
            ELSE SkipIfSuccessful(j, latestStartedAt)

\* jobImpl.Start
JobStart ==
    /\ job.pc = "created"
    /\ \E startOk \in BOOLEAN :
        LET r == IF job.clientErr THEN "errGetLatestStatus"
                 ELSE IF JobIsRunning(job.latest.Status) THEN "errJobRunning"
                 ELSE JobReady(job)
        IN job' = [job EXCEPT
                     !.pc = "done",
                     !.started = IF r = "nil" THEN @ + 1 ELSE @,
                     !.result = IF r # "nil" THEN r
                                ELSE IF startOk THEN "nil" ELSE "errStart"]
    /\ UNCHANGED <<extVars, sl, http, agentVars>>

\* jobCreatorImpl.CreateJob for a DAG with a schedule, at one of its fire times,
\* and what GetLatestStatus will answer
InitJob ==
    /\ \E sch \in Schedules, skip \in BOOLEAN, cerr \in BOOLEAN, ls \in LatestStatuses :
        \E next \in {f \in FireTimes(sch) : f >= Minute /\ f <= MaxMinute * Minute} :
            job = [pc |-> "created", SkipIfSuccessful |-> skip, Schedule |-> sch,
                   Next |-> next, latest |-> ls, clientErr |-> cerr,
                   result |-> "pending", started |-> 0, stopped |-> 0,
                   restarted |-> 0]
    /\ Fresh
    /\ pc = [a \in Agents |-> "setup"]
    /\ dry = [a \in Agents |-> FALSE]
    /\ depends = [n \in Steps |-> IF n > 1 THEN {n - 1} ELSE {}]
    /\ prevStatus = "None"
    /\ peer = [pc |-> "absent", st |-> "NoRecord", scheduled |-> FALSE]
    /\ sl = SlIdle
    /\ ExtIdle

\* Client.Stop called whatever the latest status is
JobStopAlways ==
    /\ job.pc = "created"
    /\ \E stopOk \in BOOLEAN :
        job' = [job EXCEPT
                  !.pc = "doneStop",
                  !.stopped = @ + 1,
                  !.result = IF stopOk THEN "nil" ELSE "errStop"]
    /\ UNCHANGED <<extVars, sl, http, agentVars>>

\* jobImpl.Stop
JobStop ==
    /\ job.pc = "created"
    /\ \E stopOk \in BOOLEAN :
        LET r == IF job.clientErr THEN "errGetLatestStatus"
                 ELSE IF job.latest.Status # "Running" THEN "errJobIsNotRunning"
                 ELSE "nil"
        IN job' = [job EXCEPT
                     !.pc = "doneStop",
                     !.stopped = IF r = "nil" THEN @ + 1 ELSE @,
                     !.result = IF r # "nil" THEN r
                                ELSE IF stopOk THEN "nil" ELSE "errStop"]
    /\ UNCHANGED <<extVars, sl, http, agentVars>>

\* jobImpl.Restart
JobRestart ==
    /\ job.pc = "created"
    /\ \E restartOk \in BOOLEAN :
        job' = [job EXCEPT
                  !.pc = "doneRestart",
                  !.restarted = @ + 1,
                  !.result = IF restartOk THEN "nil" ELSE "errRestart"]
    /\ UNCHANGED <<extVars, sl, http, agentVars>>

NextJob == JobStart \/ JobStop \/ JobRestart

SpecJob == InitJob /\ [][NextJob]_vars

\* ------------------------------------------------- entry reader

\* files of the DAGs directory by base name; fileutil.IsYAMLFile holds of two
YamlFiles == {"a.yaml", "b.yml"}
FileNames == YamlFiles \cup {"notes.txt"}
IsYAMLFile(name) == name \in YamlFiles

\* strings.TrimSuffix(filepath.Base(dag.Location), filepath.Ext(dag.Location))
DagId(location) == IF location = "a.yaml" THEN "a" ELSE "b"

\* what a DAG file can hold: its three schedule lists
Contents ==
    {[Schedule |-> <<[period |-> 1, offs |-> {0}]>>,
      StopSchedule |-> <<>>,
      RestartSchedule |-> <<>>],
     [Schedule |-> <<[period |-> 2, offs |-> {0}], [period |-> 2, offs |-> {0}]>>,
      StopSchedule |-> <<[period |-> 1, offs |-> {0}]>>,
      RestartSchedule |-> <<[period |-> 3, offs |-> {0, 1}]>>]}

\* digraph.LoadMetadata of a file that loads
LoadMetadata(name, content) ==
    [Location |-> name, Schedule |-> content.Schedule,
     StopSchedule |-> content.StopSchedule, RestartSchedule |-> content.RestartSchedule]

\* jobCreatorImpl.CreateJob
CreateJob(dag, next, schedule) == [DAG |-> dag, Next |-> next, Schedule |-> schedule]

\* the entry's Next taken to be now
EntryNextIsNow(schedule, now) == now

\* schedule.Parsed.Next(now)
EntryNext(schedule, now) == ScheduleNext(schedule, now)

\* addEntriesFn of Read
AddEntries(dag, schedules, entryType, now) ==
    [i \in 1..Len(schedules) |->
        [Next |-> EntryNext(schedules[i], now),
         Job |-> CreateJob(dag, EntryNext(schedules[i], now), schedules[i]),
         EntryType |-> entryType]]

\* the body of Read's loop for one DAG
DagEntries(dag, suspended, now) ==
    IF DagId(dag.Location) \in suspended THEN <<>>
    ELSE AddEntries(dag, dag.Schedule, "Start", now)
         \o AddEntries(dag, dag.StopSchedule, "Stop", now)
         \o AddEntries(dag, dag.RestartSchedule, "Restart", now)

\* the orders in which a range loop can visit the keys of a map
MapOrders(keys) ==
    {o \in [1..Cardinality(keys) -> keys] : \A i, j \in DOMAIN o : o[i] = o[j] => i = j}

RECURSIVE ReadEntries(_, _, _, _)
\* the entries Read collects visiting the map in order ord
ReadEntries(dags, suspended, now, ord) ==
    IF ord = <<>> THEN <<>>
    ELSE DagEntries(dags[Head(ord)], suspended, now)
         \o ReadEntries(dags, suspended, now, Tail(ord))

\* keys of the DAG map
DagKeys(dags) == DOMAIN dags

\* entryReaderImpl.Read
Read ==
    /\ er.rpc = "idle"
    /\ \E ord \in MapOrders(DagKeys(er.dags)) :
        er' = [er EXCEPT !.rpc = "read",
                         !.entries = ReadEntries(er.dags, er.suspended, er.now, ord)]
    /\ UNCHANGED <<cmd, db, gr, tm, cx, cu, ee, sl, http, job, agentVars>>

\* the instants at which Read is called
Nows == {m * Minute + x : m \in 0..(MaxMinute - 1), x \in {0, 30}}

\* DAG maps the reader can hold
DagMaps ==
    UNION {{m \in [keys -> {LoadMetadata(f, c) : f \in keys, c \in Contents}] :
                \A f \in keys : m[f].Location = f} : keys \in SUBSET YamlFiles}

\* an entry reader holding some DAG map, before Read(now)
InitRead ==
    /\ \E dags \in DagMaps, susp \in SUBSET {"a", "b"}, now \in Nows :
        er = [wpc |-> "off", rpc |-> "idle", dags |-> dags, suspended |-> susp,
              now |-> now, entries |-> <<>>]
    /\ IdleBut("er")
    /\ job = JobIdle
    /\ Fresh
    /\ pc = [a \in Agents |-> "setup"]
    /\ dry = [a \in Agents |-> FALSE]
    /\ depends = [n \in Steps |-> IF n > 1 THEN {n - 1} ELSE {}]
    /\ prevStatus = "None"
    /\ peer = [pc |-> "absent", st |-> "NoRecord", scheduled |-> FALSE]
    /\ sl = SlIdle

NextRead == Read

SpecRead == InitRead /\ [][NextRead]_vars

\* ------------------------------------------------- entry reader: watcher

\* fsnotify.Op values an event can carry: a set of operation flags
OpSets ==
    {{"Create"}, {"Write"}, {"Remove"}, {"Rename"}, {"Chmod"},
     {"Create", "Write"}, {"Write", "Chmod"}}

\* event.Op == flag
OpIs(op, flag) == op = {flag}

\* er.dags[key] = dag
Upsert(dags, key, dag) == [f \in DOMAIN dags \cup {key} |-> IF f = key THEN dag ELSE dags[f]]

\* delete(er.dags, key)
Delete(dags, key) == [f \in DOMAIN dags \ {key} |-> dags[f]]

\* the DAGs directory: the YAML files that load, with what they hold
Disks == UNION {[keys -> Contents] : keys \in SUBSET YamlFiles}

\* initDAGs: every YAML file of the directory that loads
InitDAGs(disk) == [f \in DOMAIN disk |-> LoadMetadata(f, disk[f])]

\* the map after the watcher has handled one event for a YAML file
ApplyEvent(dags, disk, e) ==
    LET afterUpsert ==
            IF OpIs(e.Op, "Create") \/ OpIs(e.Op, "Write")
            THEN IF e.Name \in DOMAIN disk
                 THEN Upsert(dags, e.Name, LoadMetadata(e.Name, disk[e.Name]))
                 ELSE dags
            ELSE dags
    IN IF OpIs(e.Op, "Rename") \/ OpIs(e.Op, "Remove")
       THEN Delete(afterUpsert, e.Name)
       ELSE afterUpsert

\* entryReaderImpl.Start: go er.watchDags(ctx, done)
WatchStart ==
    /\ er.wpc = "created"
    /\ er' = [er EXCEPT !.wpc = "spawned"]
    /\ UNCHANGED <<cmd, db, gr, tm, cx, cu, ee, sl, http, job, agentVars>>

\* watchDags: filenotify.New, watcher.Add
WatchNew ==
    /\ er.wpc = "spawned"
    /\ \E ok \in BOOLEAN : er' = [er EXCEPT !.wpc = IF ok THEN "watching" ELSE "exited"]
    /\ UNCHANGED <<cmd, db, gr, tm, cx, cu, ee, sl, http, job, agentVars>>

\* watchDags: case <-done
WatchDone ==
    /\ er.wpc = "watching"
    /\ er.done
    /\ er' = [er EXCEPT !.wpc = "exited", !.events = <<>>, !.errPending = FALSE]
    /\ UNCHANGED <<cmd, db, gr, tm, cx, cu, ee, sl, http, job, agentVars>>

\* watchDags: case event, ok := <-watcher.Events() with ok
WatchEvent ==
    /\ er.wpc = "watching"
    /\ er.events # <<>>
    /\ LET e == Head(er.events) IN
        er' = [er EXCEPT
                 !.events = Tail(@),
                 !.dags = IF IsYAMLFile(e.Name) THEN ApplyEvent(@, er.disk, e) ELSE @]
    /\ UNCHANGED <<cmd, db, gr, tm, cx, cu, ee, sl, http, job, agentVars>>

\* watchDags: a receive with !ok on the events or on the errors channel
WatchClosed ==
    /\ er.wpc = "watching"
    /\ \/ er.closed = "events" /\ er.events = <<>>
       \/ er.closed = "errors" /\ ~er.errPending
    /\ er' = [er EXCEPT !.wpc = "exited", !.events = <<>>, !.errPending = FALSE]
    /\ UNCHANGED <<cmd, db, gr, tm, cx, cu, ee, sl, http, job, agentVars>>

\* watchDags: case err, ok := <-watcher.Errors() with ok
WatchError ==
    /\ er.wpc = "watching"
    /\ er.errPending
    /\ er' = [er EXCEPT !.errPending = FALSE, !.logged = TRUE]
    /\ UNCHANGED <<cmd, db, gr, tm, cx, cu, ee, sl, http, job, agentVars>>

\* a file of the DAGs directory is written, or removed
DiskChange ==
    /\ er.wpc \in {"created", "spawned", "watching", "exited"}
    /\ \E f \in YamlFiles :
        \/ \E c \in Contents : er' = [er EXCEPT !.disk = Upsert(@, f, c)]
        \/ /\ f \in DOMAIN er.disk
           /\ er' = [er EXCEPT !.disk = Delete(@, f)]
    /\ UNCHANGED <<cmd, db, gr, tm, cx, cu, ee, sl, http, job, agentVars>>

\* the watcher reports a file event
Notify ==
    /\ er.wpc = "watching"
    /\ er.closed = "open"
    /\ Len(er.events) < MaxQueue
    /\ \E name \in FileNames, op \in OpSets :
        /\ IsYAMLFile(name) \/ op = {"Write"}
        /\ er' = [er EXCEPT !.events = Append(@, [Name |-> name, Op |-> op])]
    /\ UNCHANGED <<cmd, db, gr, tm, cx, cu, ee, sl, http, job, agentVars>>

\* the watcher reports an error
NotifyError ==
    /\ er.wpc = "watching"
    /\ er.closed = "open"
    /\ ~er.errPending
    /\ er' = [er EXCEPT !.errPending = TRUE]
    /\ UNCHANGED <<cmd, db, gr, tm, cx, cu, ee, sl, http, job, agentVars>>

\* the watcher fails: its events or its errors channel is closed
WatcherFails ==
    /\ er.wpc = "watching"
    /\ er.closed = "open"
    /\ \E ch \in {"events", "errors"} : er' = [er EXCEPT !.closed = ch]
    /\ UNCHANGED <<cmd, db, gr, tm, cx, cu, ee, sl, http, job, agentVars>>

\* the scheduler closes done
CloseDone ==
    /\ er.wpc \in {"created", "spawned", "watching", "exited"}
    /\ ~er.done
    /\ er' = [er EXCEPT !.done = TRUE]
    /\ UNCHANGED <<cmd, db, gr, tm, cx, cu, ee, sl, http, job, agentVars>>

\* newEntryReader on some DAGs directory
InitWatch ==
    /\ \E disk \in Disks :
        er = [wpc |-> "created", dags |-> InitDAGs(disk), disk |-> disk,
              suspended |-> {}, events |-> <<>>, errPending |-> FALSE,
              closed |-> "open", done |-> FALSE, logged |-> FALSE]
    /\ IdleBut("er")
    /\ job = JobIdle
    /\ Fresh
    /\ pc = [a \in Agents |-> "setup"]
    /\ dry = [a \in Agents |-> FALSE]
    /\ depends = [n \in Steps |-> IF n > 1 THEN {n - 1} ELSE {}]
    /\ prevStatus = "None"
    /\ peer = [pc |-> "absent", st |-> "NoRecord", scheduled |-> FALSE]
    /\ sl = SlIdle

\* the steps of the watcher task
WatcherStep == WatchStart \/ WatchNew \/ WatchDone \/ WatchEvent \/ WatchClosed \/ WatchError

NextWatch == WatcherStep \/ DiskChange \/ Notify \/ NotifyError \/ WatcherFails \/ CloseDone

SpecWatch == InitWatch /\ [][NextWatch]_vars /\ WF_vars(WatcherStep)

\* ------------------------------------------------- entry reader: dagsLock

\* an unused agent beside the subsystem under study
AgentUnused ==
    /\ Fresh
    /\ pc = [a \in Agents |-> "setup"]
    /\ dry = [a \in Agents |-> FALSE]
    /\ depends = [n \in Steps |-> IF n > 1 THEN {n - 1} ELSE {}]
    /\ prevStatus = "None"
    /\ peer = [pc |-> "absent", st |-> "NoRecord", scheduled |-> FALSE]
    /\ sl = SlIdle
    /\ job = JobIdle

\* no schedules: stands for the metadata of a file that did not load
NoContent == [Schedule |-> <<>>, StopSchedule |-> <<>>, RestartSchedule |-> <<>>]

\* what digraph.LoadMetadata can return for a file: its metadata, or an error
Loads == {[ok |-> TRUE, c |-> c] : c \in Contents} \cup {[ok |-> FALSE, c |-> NoContent]}

NoEvent == [Name |-> "", Op |-> {}]

\* newEntryReader with initDAGs: under the lock, every YAML file of the listing that
\* loads is put in the map; a failing os.ReadDir leaves the map empty
LkNew ==
    /\ er.pc = "new"
    /\ er.lock = "free"
    /\ er' = [er EXCEPT
                !.pc = "ready",
                !.dags = IF er.readDirOk
                         THEN [f \in {g \in er.dir : IsYAMLFile(g) /\ er.loads[g].ok} |->
                                  LoadMetadata(f, er.loads[f].c)]
                         ELSE @,
                !.dir = {},
                !.loads = [f \in YamlFiles |-> [ok |-> FALSE, c |-> NoContent]],
                !.readDirOk = TRUE]
    /\ UNCHANGED <<cmd, db, gr, tm, cx, cu, ee, sl, http, job, agentVars>>

\* entryReaderImpl.Start, and watchDags up to its loop
LkStart ==
    /\ er.pc = "ready"
    /\ er.wpc = "created"
    /\ \E ok \in BOOLEAN : er' = [er EXCEPT !.wpc = IF ok THEN "watching" ELSE "exited"]
    /\ UNCHANGED <<cmd, db, gr, tm, cx, cu, ee, sl, http, job, agentVars>>

\* Read: er.dagsLock.Lock(), and the order in which the range loop will visit the map
RdLock ==
    /\ er.pc = "ready"
    /\ er.rpc = "idle"
    /\ er.lock = "free"
    /\ \E ord \in MapOrders(DagKeys(er.dags)) :
        er' = [er EXCEPT !.lock = "read", !.rpc = "loop", !.todo = ord, !.seen = <<>>]
    /\ UNCHANGED <<cmd, db, gr, tm, cx, cu, ee, sl, http, job, agentVars>>

\* Read: the next DAG of the loop, er.client.IsSuspended is called
RdIsSuspended ==
    /\ er.rpc = "loop"
    /\ er.todo # <<>>
    /\ er' = [er EXCEPT !.rpc = "lookup"]
    /\ UNCHANGED <<cmd, db, gr, tm, cx, cu, ee, sl, http, job, agentVars>>

\* Read: IsSuspended answers; the entries of a DAG that is not suspended are added
RdAdd ==
    /\ er.rpc = "lookup"
    /\ \E suspended \in BOOLEAN :
        er' = [er EXCEPT !.rpc = "loop",
                         !.todo = Tail(@),
                         !.seen = IF suspended THEN @ ELSE Append(@, er.dags[Head(er.todo)])]
    /\ UNCHANGED <<cmd, db, gr, tm, cx, cu, ee, sl, http, job, agentVars>>

\* Read returns: the deferred er.dagsLock.Unlock()
RdUnlock ==
    /\ er.rpc = "loop"
    /\ er.todo = <<>>
    /\ er' = [er EXCEPT !.rpc = "done", !.lock = "free"]
    /\ UNCHANGED <<cmd, db, gr, tm, cx, cu, ee, sl, http, job, agentVars>>

\* the cron loop is about to call Read again
RdAgain ==
    /\ er.rpc = "done"
    /\ er' = [er EXCEPT !.rpc = "idle", !.seen = <<>>]
    /\ UNCHANGED <<cmd, db, gr, tm, cx, cu, ee, sl, http, job, agentVars>>

\* watchDags: an event is received; one for a file that is no YAML file is dropped
WtReceive ==
    /\ er.wpc = "watching"
    /\ \E name \in FileNames, op \in OpSets :
        er' = IF IsYAMLFile(name)
              THEN [er EXCEPT !.wpc = "event", !.ev = [Name |-> name, Op |-> op]]
              ELSE [er EXCEPT !.dropped = TRUE]
    /\ UNCHANGED <<cmd, db, gr, tm, cx, cu, ee, sl, http, job, agentVars>>

\* watchDags: er.dagsLock.Lock(); for Create or Write, LoadMetadata is called next
WtLock ==
    /\ er.wpc = "event"
    /\ er.lock = "free"
    /\ er' = [er EXCEPT !.lock = "watch",
                        !.load = [ok |-> FALSE, c |-> NoContent],
                        !.wpc = IF OpIs(er.ev.Op, "Create") \/ OpIs(er.ev.Op, "Write")
                                THEN "loading" ELSE "loaded"]
    /\ UNCHANGED <<cmd, db, gr, tm, cx, cu, ee, sl, http, job, agentVars>>

\* a failed load taken as the removal of the file
WtLoadDropOnFail ==
    /\ er.wpc = "loading"
    /\ \E r \in Loads :
        er' = [er EXCEPT !.wpc = "loaded",
                         !.load = r,
                         !.dags = IF r.ok THEN Upsert(@, er.ev.Name, LoadMetadata(er.ev.Name, r.c))
                                  ELSE Delete(@, er.ev.Name)]
    /\ UNCHANGED <<cmd, db, gr, tm, cx, cu, ee, sl, http, job, agentVars>>

\* watchDags: LoadMetadata returns; the metadata is stored, or the error is logged
WtLoad ==
    /\ er.wpc = "loading"
    /\ \E r \in Loads :
        er' = [er EXCEPT !.wpc = "loaded",
                         !.load = r,
                         !.dags = IF r.ok THEN Upsert(@, er.ev.Name, LoadMetadata(er.ev.Name, r.c))
                                  ELSE @]
    /\ UNCHANGED <<cmd, db, gr, tm, cx, cu, ee, sl, http, job, agentVars>>

\* watchDags: the Rename / Remove branch, then er.dagsLock.Unlock()
WtUnlock ==
    /\ er.wpc = "loaded"
    /\ er' = [er EXCEPT !.wpc = "watching",
                        !.lock = "free",
                        !.dags = IF OpIs(er.ev.Op, "Rename") \/ OpIs(er.ev.Op, "Remove")
                                 THEN Delete(@, er.ev.Name) ELSE @]
    /\ UNCHANGED <<cmd, db, gr, tm, cx, cu, ee, sl, http, job, agentVars>>

\* a DAGs directory with some listing, and what each of its YAML files loads as
InitLock ==
    /\ \E dir \in SUBSET FileNames, loads \in [YamlFiles -> Loads], ok \in BOOLEAN :
        /\ \A f \in YamlFiles \ dir : ~loads[f].ok
        /\ er = [pc |-> "new", wpc |-> "created", rpc |-> "idle", lock |-> "free",
                 dir |-> dir, loads |-> loads, readDirOk |-> ok,
                 dags |-> [f \in {} |-> NoContent], todo |-> <<>>, seen |-> <<>>,
                 ev |-> NoEvent, load |-> [ok |-> FALSE, c |-> NoContent],
                 dropped |-> FALSE]
    /\ IdleBut("er")
    /\ AgentUnused

NextLock ==
    \/ LkNew
    \/ LkStart
    \/ RdLock
    \/ RdIsSuspended
    \/ RdAdd
    \/ RdUnlock
    \/ RdAgain
    \/ WtReceive
    \/ WtLock
    \/ WtLoad
    \/ WtUnlock

SpecLock == InitLock /\ [][NextLock]_vars

\* ------------------------------------------------- restart command

\* the sleep between two polls of stopRunningDAG, in milliseconds
PollSleepMs == 100

\* params a persisted status can hold
ParamValues == {"", "p1", "p2"}

CmdFail == [cmd EXCEPT !.pc = "exited", !.exit = 1]

\* restartCmd: config.Load, the quiet flag, dag.Load(cfg.BaseConfig, dagFilePath, "")
CmdLoad ==
    /\ cmd.pc = "start"
    /\ \E ok \in BOOLEAN : cmd' = IF ok THEN [cmd EXCEPT !.pc = "check"] ELSE CmdFail
    /\ UNCHANGED <<er, db, gr, tm, cx, cu, ee, sl, http, job, agentVars>>

\* the DAG taken not to be running without looking
StopDAGIfRunningBlind ==
    /\ cmd.pc = "check"
    /\ cmd' = [cmd EXCEPT !.pc = "wait"]
    /\ UNCHANGED <<er, db, gr, tm, cx, cu, ee, sl, http, job, agentVars>>

\* stopDAGIfRunning up to the call of stopRunningDAG
StopDAGIfRunning ==
    /\ cmd.pc = "check"
    /\ \E ok \in BOOLEAN :
        cmd' = IF ~ok THEN CmdFail
               ELSE IF cmd.target = "Running"
               THEN [cmd EXCEPT !.pc = "poll", !.firstSeen = cmd.target]
               ELSE [cmd EXCEPT !.pc = "wait", !.firstSeen = cmd.target,
                                !.seenNotRunning = TRUE]
    /\ UNCHANGED <<er, db, gr, tm, cx, cu, ee, sl, http, job, agentVars>>

\* stopRunningDAG: one round of the loop up to the sleep
StopRunningDAG ==
    /\ cmd.pc = "poll"
    /\ \E statusOk \in BOOLEAN, stopOk \in BOOLEAN :
        cmd' = IF ~statusOk THEN CmdFail
               ELSE IF cmd.target # "Running"
               THEN [cmd EXCEPT !.pc = "wait", !.seenNotRunning = TRUE]
               ELSE IF ~stopOk THEN [CmdFail EXCEPT !.stopSent = TRUE]
               ELSE [cmd EXCEPT !.pc = "sleep", !.stopSent = TRUE]
    /\ UNCHANGED <<er, db, gr, tm, cx, cu, ee, sl, http, job, agentVars>>

\* stopRunningDAG: time.Sleep(time.Millisecond * 100)
PollSleep ==
    /\ cmd.pc = "sleep"
    /\ cmd' = [cmd EXCEPT !.pc = "poll", !.pollSlept = PollSleepMs]
    /\ UNCHANGED <<er, db, gr, tm, cx, cu, ee, sl, http, job, agentVars>>

\* waitForRestart
WaitForRestart ==
    /\ cmd.pc = "wait"
    /\ cmd' = [cmd EXCEPT !.pc = "params", !.waitDone = TRUE,
                          !.sleptFor = IF cmd.restartWait > 0 THEN cmd.restartWait ELSE 0]
    /\ UNCHANGED <<er, db, gr, tm, cx, cu, ee, sl, http, job, agentVars>>

\* getPreviousExecutionParams
GetPreviousExecutionParams ==
    /\ cmd.pc = "params"
    /\ \E ok \in BOOLEAN :
        cmd' = IF ok THEN [cmd EXCEPT !.pc = "reload", !.params = cmd.latestParams,
                                      !.paramsRead = TRUE]
               ELSE CmdFail
    /\ UNCHANGED <<er, db, gr, tm, cx, cu, ee, sl, http, job, agentVars>>

\* restartCmd: dag.Load with the params, request id, log file, agent.New
CmdReload ==
    /\ cmd.pc = "reload"
    /\ \E ok \in BOOLEAN :
        cmd' = IF ok THEN [cmd EXCEPT !.pc = "run", !.loadedWith = cmd.params] ELSE CmdFail
    /\ UNCHANGED <<er, db, gr, tm, cx, cu, ee, sl, http, job, agentVars>>

\* restartCmd: dagAgent.Run
CmdRun ==
    /\ cmd.pc = "run"
    /\ \E ok \in BOOLEAN :
        cmd' = [cmd EXCEPT !.pc = "ran", !.ranWith = cmd.loadedWith,
                           !.exit = IF ok THEN 0 ELSE 1,
                           !.target = IF ok THEN "Success" ELSE "Error"]
    /\ UNCHANGED <<er, db, gr, tm, cx, cu, ee, sl, http, job, agentVars>>

\* the running DAG ends: stopped, or finished by itself
TargetEnds ==
    /\ cmd.pc \notin {"off", "exited", "ran"}
    /\ cmd.target = "Running"
    /\ \E st \in {"Cancel", "Success", "Error"} : cmd' = [cmd EXCEPT !.target = st]
    /\ UNCHANGED <<er, db, gr, tm, cx, cu, ee, sl, http, job, agentVars>>

\* `restart <DAG file>` for a DAG in some state, with some RestartWait
InitRestart ==
    /\ \E st \in Statuses, rw \in 0..MaxRestartWait, lp \in ParamValues :
        cmd = [pc |-> "start", target |-> st, restartWait |-> rw, latestParams |-> lp,
               firstSeen |-> "unseen", seenNotRunning |-> FALSE, stopSent |-> FALSE,
               pollSlept |-> 0, waitDone |-> FALSE, sleptFor |-> 0,
               paramsRead |-> FALSE, params |-> "unread", loadedWith |-> "unread",
               ranWith |-> "unread", exit |-> 0]
    /\ IdleBut("cmd")
    /\ job = JobIdle
    /\ Fresh
    /\ pc = [a \in Agents |-> "setup"]
    /\ dry = [a \in Agents |-> FALSE]
    /\ depends = [n \in Steps |-> IF n > 1 THEN {n - 1} ELSE {}]
    /\ prevStatus = "None"
    /\ peer = [pc |-> "absent", st |-> "NoRecord", scheduled |-> FALSE]
    /\ sl = SlIdle

\* the steps of the command
CmdStep ==
    \/ CmdLoad
    \/ StopDAGIfRunning
    \/ StopRunningDAG
    \/ PollSleep
    \/ WaitForRestart
    \/ GetPreviousExecutionParams
    \/ CmdReload
    \/ CmdRun

NextRestart == CmdStep \/ TargetEnds

SpecRestart == InitRestart /\ [][NextRestart]_vars /\ WF_vars(CmdStep)

\* ------------------------------------------------- history retention

\* HistoryStore.RemoveOld(location, days): the records of earlier runs that
\* stay; a record d whole days old was written more than d days ago
RemoveOld(records, days) == {d \in records : d < days}

\* Agent.Run up to setupDatabase: setup, preconditions, the dry-run return,
\* the already-running guard
RunBeforeDatabase ==
    /\ db.pc = "start"
    /\ \E ok \in BOOLEAN :
        db' = IF db.dry /\ ok THEN [db EXCEPT !.pc = "returned", !.err = "nil"]
              ELSE IF ok THEN [db EXCEPT !.pc = "db"]
              ELSE [db EXCEPT !.pc = "returned", !.err = "errSetup"]
    /\ UNCHANGED <<er, cmd, gr, tm, cx, cu, ee, sl, http, job, agentVars>>

\* the session opened before the purge
SetupDatabaseOpenFirst ==
    /\ db.pc = "db"
    /\ \E purgeOk \in BOOLEAN, openOk \in BOOLEAN :
        LET cur == openOk
            kept == IF purgeOk THEN RemoveOld(db.old, db.HistRetentionDays) ELSE db.old
        IN db' = [db EXCEPT
                    !.old = kept,
                    !.cur = IF purgeOk /\ db.HistRetentionDays <= 0 THEN FALSE ELSE cur,
                    !.purge = IF purgeOk THEN "done" ELSE "failed",
                    !.open = IF openOk THEN "ok" ELSE "failed",
                    !.pc = IF openOk THEN "opened" ELSE "returned",
                    !.err = IF openOk THEN "nil" ELSE "errHistoryOpen"]
    /\ UNCHANGED <<er, cmd, gr, tm, cx, cu, ee, sl, http, job, agentVars>>

\* Agent.setupDatabase: RemoveOld (a failure is logged, some of the old
\* records may be gone), then Open
SetupDatabaseRecords ==
    /\ db.pc = "db"
    /\ \E purgeOk \in BOOLEAN, openOk \in BOOLEAN :
        \E kept \in IF purgeOk THEN {RemoveOld(db.old, db.HistRetentionDays)}
                    ELSE {k \in SUBSET db.old :
                            RemoveOld(db.old, db.HistRetentionDays) \subseteq k} :
            db' = [db EXCEPT
                     !.old = kept,
                     !.cur = openOk,
                     !.purge = IF purgeOk THEN "done" ELSE "failed",
                     !.open = IF openOk THEN "ok" ELSE "failed",
                     !.pc = IF openOk THEN "opened" ELSE "returned",
                     !.err = IF openOk THEN "nil" ELSE "errHistoryOpen"]
    /\ UNCHANGED <<er, cmd, gr, tm, cx, cu, ee, sl, http, job, agentVars>>

\* Agent.Run after setupDatabase: the socket server or the log tee fails, or
\* the graph is scheduled and the run completes with the scheduler's result
RunAfterDatabase ==
    /\ db.pc = "opened"
    /\ \E r \in {"errSetup", "nil", "errStep"} :
        db' = [db EXCEPT !.pc = "returned", !.err = r,
                         !.scheduled = r # "errSetup"]
    /\ UNCHANGED <<er, cmd, gr, tm, cx, cu, ee, sl, http, job, agentVars>>

\* a run of a DAG with some HistRetentionDays over the records of earlier runs
InitPurge ==
    /\ \E old \in SUBSET (0..MaxAgeDays), days \in 0..(MaxAgeDays + 1), d \in BOOLEAN :
        db = [pc |-> "start", dry |-> d, HistRetentionDays |-> days, old |-> old,
              cur |-> FALSE, purge |-> "none", open |-> "none", err |-> "pending",
              scheduled |-> FALSE]
    /\ IdleBut("db")
    /\ AgentUnused

NextPurge == RunBeforeDatabase \/ SetupDatabaseRecords \/ RunAfterDatabase

SpecPurge == InitPurge /\ [][NextPurge]_vars

\* ------------------------------------------------- lifecycle handlers, retry

HandlerNames == {"onExit", "onSuccess", "onFailure", "onCancel"}

\* node states a persisted status can hold for the steps of a finished run:
\* a step that ran had its dependencies accepting-terminal
RetrySeeds(deps) ==
    {sd \in [Steps -> {"Success", "Error", "Cancel", "Skipped"}] :
        \A n \in Steps :
            sd[n] \in {"Success", "Error", "Skipped"} =>
                \A d \in deps[n] : sd[d] \in Accepting}

\* the retry graph re-running every node, the successful ones too
NewExecutionGraphFromScratch(seed) == [n \in Steps |-> "None"]

\* scheduler.NewExecutionGraphForRetry: failed and cancelled nodes start over,
\* the others keep their state
NewExecutionGraphForRetry(seed) ==
    [n \in Steps |-> IF seed[n] \in {"Error", "Cancel"} THEN "None" ELSE seed[n]]

\* scheduler.NewExecutionGraph
NewExecutionGraph == [n \in Steps |-> "None"]

\* Agent.setup: the handlers of DAG.HandlerOn go to the scheduler's config;
\* Agent.setupGraph: a new graph, or the retry graph when RetryTarget is set
GrSetup ==
    /\ gr.pc = "setup"
    /\ gr' = [gr EXCEPT
                !.pc = "scheduling",
                !.hnode = [h \in HandlerNames |->
                              IF h \in gr.HandlerOn THEN "None" ELSE "absent"],
                !.node = IF gr.retry THEN NewExecutionGraphForRetry(gr.seed)
                         ELSE NewExecutionGraph]
    /\ UNCHANGED <<er, cmd, db, tm, cx, cu, ee, sl, http, job, agentVars>>

GrReady(n) ==
    /\ gr.node[n] = "None"
    /\ \A d \in gr.depends[n] : gr.node[d] \in Accepting

GrAdmitting == ~gr.canceled /\ \A n \in Steps : gr.node[n] # "Error"

\* a ready node is admitted: its preconditions fail (Skipped) or it runs
GrAdmit(n) ==
    /\ gr.pc = "scheduling"
    /\ GrAdmitting
    /\ GrReady(n)
    /\ \E skipped \in BOOLEAN :
        gr' = [gr EXCEPT
                 !.node[n] = IF skipped THEN "Skipped" ELSE "Running",
                 !.ran = IF skipped THEN @ ELSE @ \cup {n}]
    /\ UNCHANGED <<er, cmd, db, tm, cx, cu, ee, sl, http, job, agentVars>>

\* a running node ends
GrFinish(n) ==
    /\ gr.pc = "scheduling"
    /\ gr.node[n] = "Running"
    /\ \E r \in {"Success", "Error"} \cup (IF gr.canceled THEN {"Cancel"} ELSE {}) :
        gr' = [gr EXCEPT !.node[n] = r]
    /\ UNCHANGED <<er, cmd, db, tm, cx, cu, ee, sl, http, job, agentVars>>

\* Scheduler.Cancel / Scheduler.Signal
GrCancel ==
    /\ gr.pc = "scheduling"
    /\ ~gr.canceled
    /\ gr' = [gr EXCEPT !.canceled = TRUE]
    /\ UNCHANGED <<er, cmd, db, tm, cx, cu, ee, sl, http, job, agentVars>>

\* the outcome of the main graph
GrOutcome ==
    IF gr.canceled THEN "Cancel"
    ELSE IF \E n \in Steps : gr.node[n] = "Error" THEN "Error"
    ELSE "Success"

\* the handler chosen for an outcome, whatever it is: always OnSuccess
SelectedHandlerAlwaysSuccess(outcome) == "onSuccess"

\* the handler chosen for an outcome
SelectedHandler(outcome) ==
    IF outcome = "Cancel" THEN "onCancel"
    ELSE IF outcome = "Error" THEN "onFailure"
    ELSE "onSuccess"

\* the main graph is terminal: nothing runs, nothing can be admitted; the
\* nodes that never ran are cancelled
GrMainDone ==
    /\ gr.pc = "scheduling"
    /\ \A n \in Steps : gr.node[n] # "Running"
    /\ ~(GrAdmitting /\ \E n \in Steps : GrReady(n))
    /\ gr' = [gr EXCEPT
                !.pc = "handler",
                !.node = [n \in Steps |-> IF gr.node[n] = "None" THEN "Cancel" ELSE gr.node[n]]]
    /\ UNCHANGED <<er, cmd, db, tm, cx, cu, ee, sl, http, job, agentVars>>

\* the handler chosen by the outcome runs, when configured
GrHandler ==
    /\ gr.pc = "handler"
    /\ LET h == SelectedHandler(GrOutcome) IN
        IF gr.hnode[h] = "absent"
        THEN gr' = [gr EXCEPT !.pc = "exit"]
        ELSE \E r \in {"Success", "Error"} :
                gr' = [gr EXCEPT !.pc = "exit", !.hnode[h] = r, !.order = Append(@, h)]
    /\ UNCHANGED <<er, cmd, db, tm, cx, cu, ee, sl, http, job, agentVars>>

\* OnExit runs last, when configured
GrExit ==
    /\ gr.pc = "exit"
    /\ IF gr.hnode["onExit"] = "absent"
       THEN gr' = [gr EXCEPT !.pc = "done"]
       ELSE \E r \in {"Success", "Error"} :
               gr' = [gr EXCEPT !.pc = "done", !.hnode["onExit"] = r,
                                !.order = Append(@, "onExit")]
    /\ UNCHANGED <<er, cmd, db, tm, cx, cu, ee, sl, http, job, agentVars>>

\* Agent.Status: the status, the nodes and the handler nodes the scheduler has
GrAgentStatus ==
    [Status |-> IF \E n \in Steps : gr.node[n] = "Running" THEN "Running"
                ELSE IF gr.pc \in {"setup", "scheduling"} /\ gr.ran = {} /\ ~gr.canceled
                THEN "None"
                ELSE GrOutcome,
     Nodes |-> gr.node,
     OnExit |-> gr.hnode["onExit"],
     OnSuccess |-> gr.hnode["onSuccess"],
     OnFailure |-> gr.hnode["onFailure"],
     OnCancel |-> gr.hnode["onCancel"]]

\* agent.New for a DAG with some handlers, with or without a RetryTarget
InitGraph ==
    /\ \E deps \in DependsChoices, hs \in SUBSET HandlerNames, rt \in BOOLEAN :
        \E sd \in IF rt THEN RetrySeeds(deps) ELSE {[n \in Steps |-> "None"]} :
            gr = [pc |-> "setup", depends |-> deps, HandlerOn |-> hs, retry |-> rt,
                  seed |-> sd, node |-> [n \in Steps |-> "None"],
                  hnode |-> [h \in HandlerNames |-> "absent"],
                  ran |-> {}, canceled |-> FALSE, order |-> <<>>]
    /\ IdleBut("gr")
    /\ AgentUnused

NextGraph ==
    \/ GrSetup
    \/ \E n \in Steps : GrAdmit(n)
    \/ \E n \in Steps : GrFinish(n)
    \/ GrCancel
    \/ GrMainDone
    \/ GrHandler
    \/ GrExit

SpecGraph == InitGraph /\ [][NextGraph]_vars

\* ------------------------------------------------- timestamps

\* time.Time values: whole seconds since the zero time, the nanoseconds within
\* the second, and whether the location is UTC
TimeValues ==
    {[sec |-> x, nsec |-> ns, utc |-> u] :
        x \in {ZeroTime} \cup {m * Minute + y : m \in 0..MaxMinute, y \in {0, 1, 30}},
        ns \in {0, 1}, u \in BOOLEAN}

\* Time.IsZero
IsZero(t) == t.sec = ZeroTime /\ t.nsec = 0

\* the zero time written like any other time
FormatTimeNoDash(t) ==
    [kind |-> "time", sec |-> t.sec, zone |-> IF t.utc THEN "Z" ELSE "+09:00"]

\* stringutil.FormatTime: "-" for the zero time, else RFC 3339 (whole seconds,
\* with the zone offset)
FormatTime(t) ==
    IF IsZero(t) THEN [kind |-> "dash", sec |-> ZeroTime, zone |-> "Z"]
    ELSE [kind |-> "time", sec |-> t.sec, zone |-> IF t.utc THEN "Z" ELSE "+09:00"]

\* the time.Time that stringutil.ParseTime returns for a text
ParsedTime(v) ==
    [sec |-> ParseTime(v).t, nsec |-> 0, utc |-> (v.kind # "time" \/ v.zone = "Z"),
     err |-> ParseTime(v).err]

\* a status field is formatted
TmFormat ==
    /\ tm.pc = "time"
    /\ tm' = [tm EXCEPT !.pc = "text", !.text = FormatTime(tm.t)]
    /\ UNCHANGED <<er, cmd, db, gr, cx, cu, ee, sl, http, job, agentVars>>

\* the text of a status field is parsed
TmParse ==
    /\ tm.pc = "text"
    /\ tm' = [tm EXCEPT !.pc = "parsed", !.parsed = ParsedTime(tm.text)]
    /\ UNCHANGED <<er, cmd, db, gr, cx, cu, ee, sl, http, job, agentVars>>

\* a time about to be formatted, or a text read from a persisted status
InitTime ==
    /\ \/ \E t \in TimeValues :
            tm = [pc |-> "time", formatted |-> TRUE, t |-> t,
                  text |-> [kind |-> "none", sec |-> ZeroTime, zone |-> "Z"],
                  parsed |-> [sec |-> ZeroTime, nsec |-> 0, utc |-> TRUE, err |-> FALSE]]
       \/ \E v \in StartedAts :
            tm = [pc |-> "text", formatted |-> FALSE,
                  t |-> [sec |-> ZeroTime, nsec |-> 0, utc |-> TRUE],
                  text |-> [kind |-> v.kind, sec |-> v.sec, zone |-> "Z"],
                  parsed |-> [sec |-> ZeroTime, nsec |-> 0, utc |-> TRUE, err |-> FALSE]]
    /\ IdleBut("tm")
    /\ AgentUnused

NextTime == TmFormat \/ TmParse

SpecTime == InitTime /\ [][NextTime]_vars

\* ------------------------------------------------------ context of a run

\* the contexts a run can hand on: one derived from the caller's (dag.NewContext(ctx, ...))
\* or one derived from context.Background()
FromCaller == "caller"
FromBackground == "background"

\* ctx.Done() of a context handed to Scheduler.Schedule: a derived context is done
\* exactly when its parent is; context.Background() is never done
CtxDone(c) == IF c = FromCaller THEN cx.callerDone ELSE FALSE

CxNodes(st) == {n \in Steps : cx.node[n] = st}
CxTerminal == \A n \in Steps : cx.node[n] \in TerminalStatuses

\* Agent.Run up to the branch on a.Dry: setup and checkPreconditions, either may fail
CxSetup ==
    /\ cx.pc = "setup"
    /\ \E e \in {"nil", "errReqID", "errLog", "errGraph", "errPreconditions"} :
        cx' = [cx EXCEPT !.pc = IF e = "nil" THEN "branch" ELSE "returned",
                         !.err = e]
    /\ UNCHANGED <<er, cmd, db, gr, tm, cu, ee, sl, http, job, agentVars>>

\* Agent.dryRun: Schedule is handed a context made from context.Background()
CxDryRun ==
    /\ cx.pc = "branch"
    /\ cx.dry
    /\ cx' = [cx EXCEPT !.pc = "suspended", !.ctx = FromBackground]
    /\ UNCHANGED <<er, cmd, db, gr, tm, cu, ee, sl, http, job, agentVars>>

\* Agent.Run, not dry: the guard, the store, the socket or the tee may fail;
\* otherwise Schedule is handed a context made from the caller's ctx
CxStart ==
    /\ cx.pc = "branch"
    /\ ~cx.dry
    /\ \E e \in {"nil", errDAGIsAlreadyRunning, "errHistoryOpen", "errNewServer",
                  "errTeeOpen", "errFailedSetupUnixSocket"} :
        cx' = [cx EXCEPT !.pc = IF e = "nil" THEN "suspended" ELSE "returned",
                         !.err = e,
                         !.ctx = IF e = "nil" THEN FromCaller ELSE @]
    /\ UNCHANGED <<er, cmd, db, gr, tm, cu, ee, sl, http, job, agentVars>>

\* the caller cancels the context it passed to Agent.Run
CxCancel ==
    /\ cx.pc # "off"
    /\ ~cx.callerDone
    /\ cx' = [cx EXCEPT !.callerDone = TRUE]
    /\ UNCHANGED <<er, cmd, db, gr, tm, cu, ee, sl, http, job, agentVars>>

\* Scheduler.Schedule admits the next step in declaration order
CxAdmit(n) ==
    /\ cx.pc = "suspended"
    /\ ~cx.canceled
    /\ CxNodes("Error") = {}
    /\ cx.node[n] = "None"
    /\ \A m \in Steps : m < n => cx.node[m] # "None"
    /\ cx' = [cx EXCEPT !.node[n] = "Running"]
    /\ UNCHANGED <<er, cmd, db, gr, tm, cu, ee, sl, http, job, agentVars>>

\* a running node reaches a terminal state and the scheduler receives it on done
CxNodeDone(n) ==
    /\ cx.pc = "suspended"
    /\ cx.node[n] = "Running"
    /\ \E st \in (IF cx.canceled THEN TerminalStatuses ELSE {"Success", "Error"}) :
        cx' = [cx EXCEPT !.node[n] = st]
    /\ UNCHANGED <<er, cmd, db, gr, tm, cu, ee, sl, http, job, agentVars>>

\* suspended on done, the scheduler finds its context done: no further node is
\* admitted and the running nodes are signalled
CxCtxDone ==
    /\ cx.pc = "suspended"
    /\ CtxDone(cx.ctx)
    /\ ~cx.canceled
    /\ cx' = [cx EXCEPT !.canceled = TRUE,
                        !.node = [n \in Steps |-> IF cx.node[n] = "None" THEN "Cancel" ELSE cx.node[n]]]
    /\ UNCHANGED <<er, cmd, db, gr, tm, cu, ee, sl, http, job, agentVars>>

\* Schedule returns when every node is terminal; Run returns its error
CxReturn ==
    /\ cx.pc = "suspended"
    /\ \/ CxTerminal
       \/ CxNodes("Error") # {} /\ CxNodes("Running") = {}
    /\ cx' = [cx EXCEPT !.pc = "returned",
                        !.err = IF CxNodes("Error") # {} THEN "errStep"
                                ELSE IF cx.canceled THEN "errCanceled" ELSE "nil"]
    /\ UNCHANGED <<er, cmd, db, gr, tm, cu, ee, sl, http, job, agentVars>>

InitCtx ==
    /\ \E d \in BOOLEAN :
        cx = [pc |-> "setup", dry |-> d, callerDone |-> FALSE, ctx |-> "none",
              node |-> [n \in Steps |-> "None"], canceled |-> FALSE, err |-> "nil"]
    /\ IdleBut("cx")
    /\ AgentUnused

CxStep ==
    \/ CxSetup
    \/ CxDryRun
    \/ CxStart
    \/ \E n \in Steps : CxAdmit(n)
    \/ \E n \in Steps : CxNodeDone(n)
    \/ CxCtxDone
    \/ CxReturn

NextCtx ==
    \/ CxStep
    \/ CxCancel

SpecCtx == InitCtx /\ [][NextCtx]_vars /\ WF_vars(CxStep)

\* ------------------------------------------------------ encodeError

\* HTTP status codes and messages an *httpError can carry
ErrCodes == {400, 401, 403, 404, 405, 409, 500, 503}
ErrMessages == {"", "Not found", "bad request", "method not allowed"}

\* the errors encodeError can be handed: an *httpError, an error wrapping one
\* (depth 1), or an error with no *httpError in its chain (kind "other"), such as
\* the one status.ToJson returns
HTTPErrors ==
    {[kind |-> k, Code |-> c, Message |-> m] :
        k \in {"httpError", "wrapped"}, c \in ErrCodes, m \in ErrMessages}
    \cup {[kind |-> "other", Code |-> 0, Message |-> m] : m \in {"json: unsupported type", "EOF"}}

\* errors.As(err, &httpErr): the first *httpError of the chain, or httpErr left nil
ErrorsAs(err) ==
    IF err.kind \in {"httpError", "wrapped"}
    THEN [isNil |-> FALSE, Code |-> err.Code, Message |-> err.Message]
    ELSE [isNil |-> TRUE, Code |-> 0, Message |-> ""]

\* (*httpError).Error: reads e.Message, which panics on a nil receiver
HttpErrorError(e) ==
    IF e.isNil THEN [panic |-> TRUE, text |-> ""] ELSE [panic |-> FALSE, text |-> e.Message]

\* encodeError: what the client gets, or the panic the call ends in
EncodeErrorResult(err) ==
    LET httpErr == ErrorsAs(err) IN
    IF ~httpErr.isNil
    THEN [panic |-> HttpErrorError(httpErr).panic, code |-> httpErr.Code,
          body |-> HttpErrorError(httpErr).text]
    ELSE IF HttpErrorError(httpErr).panic
         THEN [panic |-> TRUE, code |-> 0, body |-> ""]
         ELSE [panic |-> FALSE, code |-> 500, body |-> HttpErrorError(httpErr).text]

\* encodeError(w, err)
EncodeError ==
    /\ ee.pc = "error"
    /\ ee' = [ee EXCEPT !.pc = "encoded", !.res = EncodeErrorResult(ee.err)]
    /\ UNCHANGED <<er, cmd, db, gr, tm, cx, cu, sl, http, job, agentVars>>

\* a handler about to report an error
InitEncode ==
    /\ \E e \in HTTPErrors :
        ee = [pc |-> "error", err |-> e, res |-> [panic |-> FALSE, code |-> 0, body |-> ""]]
    /\ IdleBut("ee")
    /\ AgentUnused

NextEncode == EncodeError

SpecEncode == InitEncode /\ [][NextEncode]_vars

\* ------------------------------------------------------ command parsing

\* command strings are sequences of runes, up to MaxCmdLen long
Backslash == "\\"
Quote == "\""
\* the backtick (U+0060)
Backtick == "U+0060"
Pipe == "|"
Space == " "
Runes == {"a", Space, Pipe, Quote, Backtick, Backslash}
CmdStrings == UNION {[1..n -> Runes] : n \in 0..MaxCmdLen}

\* no rune taken to be a space
IsSpaceNever(r) == FALSE

\* unicode.IsSpace
IsSpace(r) == r = Space

\* the token of an unquoted pipe
PipeToken == <<Pipe>>

\* ParsePipedCommand: the flush of current into tokens
Flush(st) ==
    IF Len(st.current) > 0
    THEN [st EXCEPT !.tokens = Append(@, st.current), !.current = <<>>]
    ELSE st

\* ParsePipedCommand: the body of the loop over the runes
ScanRune(st, r) ==
    IF st.inEscape
    THEN [st EXCEPT !.current = Append(@, r), !.inEscape = FALSE]
    ELSE IF r = Backslash
    THEN [st EXCEPT !.current = Append(@, r), !.inEscape = TRUE]
    ELSE IF r = Quote /\ ~st.inBacktick
    THEN [st EXCEPT !.current = Append(@, r), !.inQuote = ~st.inQuote]
    ELSE IF r = Backtick
    THEN [st EXCEPT !.current = Append(@, r), !.inBacktick = ~st.inBacktick]
    ELSE IF r = Pipe /\ ~st.inQuote /\ ~st.inBacktick
    THEN [Flush(st) EXCEPT !.tokens = Append(@, PipeToken)]
    ELSE IF IsSpace(r) /\ ~st.inQuote /\ ~st.inBacktick
    THEN Flush(st)
    ELSE [st EXCEPT !.current = Append(@, r)]

RECURSIVE ScanRunes(_, _)
ScanRunes(st, str) ==
    IF str = <<>> THEN st ELSE ScanRunes(ScanRune(st, Head(str)), Tail(str))

\* ParsePipedCommand: the tokens after the first loop and the last flush
Tokens(str) ==
    Flush(ScanRunes([inQuote |-> FALSE, inBacktick |-> FALSE, inEscape |-> FALSE,
                     current |-> <<>>, tokens |-> <<>>], str)).tokens

RECURSIVE BuildPipeline(_, _, _)
\* ParsePipedCommand: the loop over the tokens and the last append
BuildPipeline(tokens, currentCmd, pipeline) ==
    IF tokens = <<>>
    THEN IF Len(currentCmd) > 0 THEN Append(pipeline, currentCmd) ELSE pipeline
    ELSE IF Head(tokens) = PipeToken
    THEN IF Len(currentCmd) > 0
         THEN BuildPipeline(Tail(tokens), <<>>, Append(pipeline, currentCmd))
         ELSE BuildPipeline(Tail(tokens), currentCmd, pipeline)
    ELSE BuildPipeline(Tail(tokens), Append(currentCmd, Head(tokens)), pipeline)

\* cmdutil.ParsePipedCommand
ParsePipedCommand(str) == BuildPipeline(Tokens(str), <<>>, <<>>)

RECURSIVE PipedArgs(_, _)
\* SplitCommand: "|" and the words of every segment from the k-th on
PipedArgs(pipeline, k) ==
    IF k > Len(pipeline) THEN <<>>
    ELSE <<PipeToken>> \o pipeline[k] \o PipedArgs(pipeline, k + 1)

ErrCommandIsEmpty == "ErrCommandIsEmpty"

SplitResult(e, c, a) == [err |-> e, cmd |-> c, args |-> a]

\* SplitCommand without the pipes between the segments
SplitCommandFirstOnly(str) ==
    LET pipeline == ParsePipedCommand(str) IN
    IF Len(pipeline) = 0 THEN SplitResult(ErrCommandIsEmpty, <<>>, <<>>)
    ELSE SplitResult("nil", Head(pipeline[1]), Tail(pipeline[1]))

\* cmdutil.SplitCommand
SplitCommand(str) ==
    LET pipeline == ParsePipedCommand(str) IN
    IF Len(pipeline) > 1
    THEN SplitResult("nil", Head(pipeline[1]), Tail(pipeline[1]) \o PipedArgs(pipeline, 2))
    ELSE IF Len(pipeline) = 0 THEN SplitResult(ErrCommandIsEmpty, <<>>, <<>>)
    ELSE IF Len(pipeline[1]) = 0 THEN SplitResult(ErrCommandIsEmpty, <<>>, <<>>)
    ELSE SplitResult("nil", Head(pipeline[1]), Tail(pipeline[1]))

\* the command field of a step definition: absent, a string, an array of strings
\* and numbers, or a value of another type
ArrayValues ==
    {[t |-> "string", v |-> <<"a">>], [t |-> "string", v |-> <<>>], [t |-> "int", v |-> <<"1">>]}
CommandDefs ==
    {[t |-> "nil", v |-> <<>>], [t |-> "map", v |-> <<>>]}
    \cup {[t |-> "string", v |-> str] : str \in CmdStrings}
    \cup {[t |-> "array", v |-> arr] : arr \in UNION {[1..n -> ArrayValues] : n \in 0..2}}

\* a step before buildCommand
NoCommand == [Command |-> <<>>, Args |-> <<>>, CmdWithArgs |-> <<>>]

RECURSIVE EscapeRunes(_)
\* fmt.Sprintf("%q", arg) without the enclosing quotes
EscapeRunes(w) ==
    IF w = <<>> THEN <<>>
    ELSE (IF Head(w) \in {Quote, Backslash} THEN <<Backslash, Head(w)>> ELSE <<Head(w)>>)
         \o EscapeRunes(Tail(w))

\* fmt.Sprintf("%q", arg)
Quoted(w) == <<Quote>> \o EscapeRunes(w) \o <<Quote>>

RECURSIVE JoinQuoted(_, _)
\* buildCommand: the string builder over step.Args
JoinQuoted(args, i) ==
    IF i > Len(args) THEN <<>>
    ELSE (IF i > 1 THEN <<Space>> ELSE <<>>) \o Quoted(args[i]) \o JoinQuoted(args, i + 1)

RECURSIVE ArrayCommand(_, _)
\* buildCommand: the loop over the elements of an array command
ArrayCommand(step, arr) ==
    IF arr = <<>> THEN step
    ELSE IF step.Command = <<>>
    THEN ArrayCommand([step EXCEPT !.Command = Head(arr).v], Tail(arr))
    ELSE ArrayCommand([step EXCEPT !.Args = Append(@, Head(arr).v)], Tail(arr))

\* digraph.buildCommand: the error returned and the step it leaves
BuildCommand(def, step) ==
    IF def.t = "nil" THEN [err |-> "nil", step |-> step]
    ELSE IF def.t = "string"
    THEN IF def.v = <<>> THEN [err |-> "errStepCommandIsEmpty", step |-> step]
         ELSE LET r == SplitCommand(def.v)
                  withRaw == [step EXCEPT !.CmdWithArgs = def.v]
              IN IF r.err # "nil" THEN [err |-> "failed to parse command", step |-> withRaw]
                 ELSE [err |-> "nil",
                       step |-> [withRaw EXCEPT !.Command = r.cmd, !.Args = r.args]]
    ELSE IF def.t = "array"
    THEN LET st == ArrayCommand(step, def.v) IN
         [err |-> "nil",
          step |-> [st EXCEPT !.CmdWithArgs = st.Command \o <<Space>> \o JoinQuoted(st.Args, 1)]]
    ELSE [err |-> "errStepCommandMustBeArrayOrString", step |-> step]

\* ParsePipedCommand(cmdString)
CuParse ==
    /\ cu.pc = "input"
    /\ cu.def.t = "string"
    /\ cu' = [cu EXCEPT !.pc = "parsed", !.pipeline = ParsePipedCommand(cu.def.v)]
    /\ UNCHANGED <<er, cmd, db, gr, tm, cx, ee, sl, http, job, agentVars>>

\* SplitCommand(cmd)
CuSplit ==
    /\ cu.pc = "input"
    /\ cu.def.t = "string"
    /\ cu' = [cu EXCEPT !.pc = "split", !.split = SplitCommand(cu.def.v)]
    /\ UNCHANGED <<er, cmd, db, gr, tm, cx, ee, sl, http, job, agentVars>>

\* buildCommand(ctx, def, step)
CuBuild ==
    /\ cu.pc = "input"
    /\ cu' = [cu EXCEPT !.pc = "built",
                        !.err = BuildCommand(cu.def, cu.step).err,
                        !.step = BuildCommand(cu.def, cu.step).step]
    /\ UNCHANGED <<er, cmd, db, gr, tm, cx, ee, sl, http, job, agentVars>>

\* a command field about to be parsed
InitCmdutil ==
    /\ \E def \in CommandDefs :
        cu = [pc |-> "input", def |-> def, pipeline |-> <<>>,
              split |-> SplitResult("nil", <<>>, <<>>), err |-> "nil", step |-> NoCommand]
    /\ IdleBut("cu")
    /\ AgentUnused

NextCmdutil == CuParse \/ CuSplit \/ CuBuild

SpecCmdutil == InitCmdutil /\ [][NextCmdutil]_vars

\* ------------------------------------------------------------- properties

\* positions of the main task once Scheduler.Schedule has returned
PostSchedule == {"final", "closing", "finishing", "returning", "dry_report"}

\* positions of the main task while the non-dry run is past the listen result
Serving == {"spawn", "schedule", "scheduling", "final", "closing", "finishing", "returning"}

\* positions of the main task once the final status write has been issued
AfterFinal == {"closing", "finishing", "returning", "returned"}

\* C1: a non-dry run whose guard is answered Running returns an error that
\* wraps errDAGIsAlreadyRunning and carries the socket address; it has opened
\* no history session, bound no socket and never invoked Schedule
C1_RunningIsRejected ==
    \A a \in Agents :
        guardSeen[a] = "Running" =>
            /\ ~dry[a]
            /\ pc[a] = "returned"
            /\ ret[a] = Err(errDAGIsAlreadyRunning, SockAddr, 0)
            /\ hist[a] = NoSession
            /\ latest # a
            /\ sockOwner # a
            /\ scheduled[a] = 0

C1_RunningWasAnswered ==
    \E a \in Agents : guardSeen[a] = "Running" /\ pc[a] = "returned"

\* C2: the guard rejects only when the current status is Running; for every
\* other status the run is not rejected as already running
C2_RejectsOnlyRunning ==
    \A a \in Agents :
        ret[a].wraps = errDAGIsAlreadyRunning => guardSeen[a] = "Running"

\* C3: of two concurrent non-dry runs of the same DAG at most one reaches
\* Scheduler.Schedule
C3_AtMostOneScheduled ==
    \A a \in Agents : ~dry[a] => ~(scheduled[a] > 0 /\ peer.scheduled)

\* C4: a run that returns a setup error has not invoked Schedule and has run
\* no node; a non-dry run that invoked Schedule passed the guard, opened its
\* log and its history session, and serves the socket until it returns
C4_SetupFailureNeverSchedules ==
    \A a \in Agents :
        /\ ret[a].wraps \in SetupErrKinds =>
              /\ pc[a] = "returned"
              /\ scheduled[a] = 0
              /\ startAt[a] = 0
              /\ \A n \in Steps : node[a][n] = "None"
        /\ (scheduled[a] > 0 /\ ~dry[a]) =>
              /\ guardSeen[a] = "None"
              /\ logState[a] # "unopened"
              /\ hist[a].state # "unopened"
        /\ (pc[a] \in Serving /\ ~dry[a]) => sockOwner = a

C4_ListenFailed ==
    \E a \in Agents :
        /\ pc[a] = "returned"
        /\ ret[a] = errFailedSetupUnixSocket
        /\ hist[a].state = "closed"

\* C5: after a precondition failure Run has returned the precondition error,
\* the agent's status is Cancel, every node is still None, Schedule was not
\* invoked and nothing was written to the history store
C5_PreconditionFailureCancels ==
    \A a \in Agents :
        ret[a].wraps = "errPrecondition" =>
            /\ pc[a] = "returned"
            /\ AgentStatus(a) = "Cancel"
            /\ \A n \in Steps : node[a][n] = "None"
            /\ scheduled[a] = 0
            /\ hist[a] = NoSession
            /\ latest # a

C5_PreconditionFailed ==
    \E a \in Agents : ret[a].wraps = "errPrecondition" /\ canceled[a]

\* C6: no step of a dry run consults the guard, changes the history store
\* or binds a socket
C6_DryRunTouchesNothing ==
    [][\A a \in Agents :
          dry[a] => UNCHANGED <<guardSeen, hist, latest, prevStatus, sockOwner>>]_vars

C6_DryRunCompleted ==
    \E a \in Agents :
        /\ dry[a]
        /\ pc[a] = "returned"
        /\ scheduled[a] > 0
        /\ \A n \in Steps : node[a][n] = "Success"

\* C7: once Schedule has returned, the agent's status is Success, Error or
\* Cancel, and the finish time is not before the start time
C7_TerminalAfterSchedule ==
    \A a \in Agents :
        (pc[a] \in PostSchedule \/ (pc[a] = "returned" /\ scheduled[a] > 0)) =>
            /\ AgentStatus(a) \in TerminalStatuses
            /\ startAt[a] # 0
            /\ finishAt[a] >= startAt[a]

C7_ScheduleReturnedError ==
    \E a \in Agents :
        /\ pc[a] = "final"
        /\ AgentStatus(a) = "Error"
        /\ finishAt[a] > startAt[a]

\* C8: a run that invoked Schedule returns the scheduler's last error, which
\* is not nil when the aggregate status is Error
C8_ReturnsLastErr ==
    \A a \in Agents :
        (pc[a] = "returned" /\ scheduled[a] > 0) =>
            /\ ret[a] = lastErr[a]
            /\ AgentStatus(a) = "Error" => ret[a] # NilErr

C8_ReturnedStepError ==
    \E a \in Agents :
        /\ pc[a] = "returned"
        /\ ~dry[a]
        /\ AgentStatus(a) = "Error"
        /\ ret[a].wraps = "errStep"

\* C9: once the final write has been issued and the record carries the
\* terminal status of the finished graph, no later write replaces it by a
\* Running status
C9_NoRunningAfterFinal ==
    [][\A a \in Agents :
          (/\ pc[a] \in AfterFinal
           /\ hist[a].st \in TerminalStatuses
           /\ hist[a].ver = Progress(a))
          => hist'[a].st # "Running"]_vars

\* C10: the snapshots of a run are persisted in the order they were taken:
\* no write replaces the record by an older snapshot
C10_PersistedInOrder ==
    [][\A a \in Agents : hist'[a].ver >= hist[a].ver]_vars

\* C11: the signal loop ends either on done, having sent no SIGKILL, or on the
\* timeout, having sent SIGKILL exactly once; SIGKILL is never sent before
\* MaxCleanUpTime has elapsed, and until the loop ends only the original
\* signal is sent
C11_SignalEscalation ==
    /\ sl.kills > 0 =>
          /\ sl.kills = 1
          /\ sl.now >= sl.mcu
          /\ sl.pc = "returned"
          /\ sl.by = "timeout"
    /\ sl.pc = "returned" =>
          \/ sl.by = "done" /\ sl.quiesced /\ sl.kills = 0 /\ sl.sent = sl.sig
          \/ sl.by = "timeout" /\ sl.kills = 1 /\ sl.sent = "SIGKILL"
    /\ sl.pc = "select" => sl.sent = sl.sig /\ sl.kills = 0

C11_KilledAfterResend ==
    /\ sl.pc = "returned"
    /\ sl.by = "timeout"
    /\ sl.resent > 0
    /\ sl.kills = 1
    /\ ~sl.quiesced

C14_StopAnswersFirst ==
    [][\A a \in Agents :
          (/\ http' # http
           /\ http'.method = "POST"
           /\ http'.path \in {"/stop", "/stop/"})
          => /\ http'.code = 200
             /\ http'.body = "OK"
             /\ sl'.pc = "called"
             /\ sl'.sig = "SIGTERM"
             /\ sl'.allowOverride
             /\ sl'.sent = "none"
             /\ UNCHANGED agentVars]_vars

C14_AnsweredNotYetSignalled ==
    \E a \in Agents :
        /\ http.method = "POST"
        /\ http.body = "OK"
        /\ sl.pc = "called"
        /\ ~canceled[a]
        /\ AgentStatus(a) = "Running"

\* C15: every request that is neither GET on /status[/] nor POST on /stop[/]
\* is answered 404 "Not found" and changes nothing of the agent, the graph or
\* the signal loop
C15_OtherRequestsNotFound ==
    [][(/\ http' # http
        /\ ~(http'.method = "GET" /\ http'.path \in {"/status", "/status/"})
        /\ ~(http'.method = "POST" /\ http'.path \in {"/stop", "/stop/"}))
       => /\ http'.code = 404
          /\ http'.body = "Not found"
          /\ UNCHANGED <<agentVars, sl>>]_vars

C15_GetStopNotFound ==
    /\ http.method = "GET"
    /\ http.path = "/stop"
    /\ http.code = 404
    /\ sl.pc = "idle"
    /\ \A a \in Agents : ~canceled[a] /\ AgentStatus(a) = "Running"

\* the signal has reached the graph of a non-dry run while a step is running
StopDelivered(a) == ~dry[a] /\ canceled[a] /\ pc[a] = "scheduling" /\ IsRunning(a)

JobDecided ==
    /\ job.pc = "done"
    /\ ~job.clientErr
    /\ job.latest.Status # "Running"
    /\ job.latest.StartedAt.kind # "garbage"

\* the started-at of the latest run, cut to the minute
LastStart == (job.latest.StartedAt.sec \div 60) * 60

\* C16: Start does not call Client.Start when the latest status is Running
\* (it returns errJobRunning) nor when GetLatestStatus fails (it returns that error)
C16_RunningNeverStarted ==
    job.pc = "done" =>
        /\ job.clientErr => job.result = "errGetLatestStatus" /\ job.started = 0
        /\ (~job.clientErr /\ job.latest.Status = "Running") =>
              job.result = "errJobRunning" /\ job.started = 0

C16_SkippedRunning ==
    /\ job.pc = "done"
    /\ ~job.clientErr
    /\ job.latest.Status = "Running"
    /\ job.result = "errJobRunning"

\* C17: when the latest run is not Running and its started-at, cut to the
\* minute, is at or after Next, Start returns errJobFinished without calling
\* Client.Start, whatever SkipIfSuccessful and the status are
C17_FinishedTakesPrecedence ==
    (JobDecided /\ LastStart >= job.Next) =>
        job.result = "errJobFinished" /\ job.started = 0

C17_FinishedAtNext ==
    /\ JobDecided
    /\ job.SkipIfSuccessful
    /\ job.latest.Status = "Success"
    /\ LastStart = job.Next
    /\ job.latest.StartedAt.sec > job.Next
    /\ job.result = "errJobFinished"

\* the lower bound of the window: Next less the distance from Next to the fire after it
C18_Prev == job.Next - (ScheduleNext(job.Schedule, job.Next + 1) - job.Next)

ScenarioF(m0) ==
    /\ JobDecided
    /\ job.Schedule = [period |-> 1, offs |-> {0}]
    /\ job.SkipIfSuccessful
    /\ job.latest.Status = "Success"
    /\ LastStart = m0

\* C19 as stated: in scenario F a Start whose Next is M0 returns errJobSuccess
C19_ScenarioFSuccess ==
    ScenarioF(job.Next) => job.result = "errJobSuccess"

\* C19 amended: in scenario F a Start whose Next is M0 returns errJobFinished;
\* the Start whose Next is the minute after M0 returns errJobSuccess
C19_ScenarioFFinished ==
    /\ ScenarioF(job.Next) => job.result = "errJobFinished" /\ job.started = 0
    /\ ScenarioF(job.Next - 60) => job.result = "errJobSuccess" /\ job.started = 0

C19_ScenarioFNextMinute ==
    /\ ScenarioF(job.Next - 60)
    /\ job.result = "errJobSuccess"

\* the fire time of the schedule before Next
C20_PreviousFire ==
    CHOOSE f \in FireTimes(job.Schedule) :
        /\ f < job.Next
        /\ \A g \in FireTimes(job.Schedule) : g < job.Next => g <= f

\* C20: with SkipIfSuccessful, Start starts no run when the latest run started
\* in the window [previous fire, Next) and ended in Success
C20_OneSuccessPerWindow ==
    (/\ JobDecided
     /\ job.SkipIfSuccessful
     /\ job.latest.Status = "Success"
     /\ C20_PreviousFire <= LastStart
     /\ LastStart < job.Next)
    => job.started = 0

\* C21: Stop calls Client.Stop exactly when the latest status was read and is
\* Running; otherwise it returns errJobIsNotRunning, or the GetLatestStatus
\* error, without calling it. Restart calls Client.Restart once whatever the
\* latest status is, and reads no status. Neither starts a run.
C21_StopOnlyRunning ==
    /\ job.pc = "doneStop" =>
          /\ job.started = 0 /\ job.restarted = 0
          /\ job.clientErr => job.result = "errGetLatestStatus" /\ job.stopped = 0
          /\ (~job.clientErr /\ job.latest.Status # "Running") =>
                job.result = "errJobIsNotRunning" /\ job.stopped = 0
          /\ (~job.clientErr /\ job.latest.Status = "Running") =>
                job.stopped = 1 /\ job.result \in {"nil", "errStop"}
    /\ job.pc = "doneRestart" =>
          /\ job.restarted = 1
          /\ job.started = 0 /\ job.stopped = 0
          /\ job.result \in {"nil", "errRestart"}

C21_StopRefused ==
    /\ job.pc = "doneStop"
    /\ ~job.clientErr
    /\ job.latest.Status = "Success"
    /\ job.result = "errJobIsNotRunning"
    /\ job.stopped = 0

\* the positions of a schedule in a list
C22_Positions(schedules, sch) == {i \in 1..Len(schedules) : schedules[i] = sch}

\* the entries of a Read result for a DAG, an entry type and a schedule
C22_Matching(entries, dag, kind, sch) ==
    {i \in 1..Len(entries) :
        /\ entries[i].Job.DAG = dag
        /\ entries[i].EntryType = kind
        /\ entries[i].Job.Schedule = sch}

\* the list of a DAG an entry type is taken from
C22_List(dag, kind) ==
    IF kind = "Start" THEN dag.Schedule
    ELSE IF kind = "Stop" THEN dag.StopSchedule
    ELSE dag.RestartSchedule

\* C22: Read(now) returns one entry per (DAG not suspended, position of a
\* schedule in Schedule / StopSchedule / RestartSchedule) with the matching
\* entry type, Next the schedule's first fire time strictly after now, and a
\* job holding the same DAG, Next and schedule; suspended DAGs contribute
\* nothing, nothing else is returned, and the DAG map is left as it was
C22_ReadEmitsEntries ==
    /\ [](er.rpc = "read" =>
          /\ \A i \in 1..Len(er.entries) :
                LET e == er.entries[i] IN
                /\ e.Job.DAG.Location \in DagKeys(er.dags)
                /\ e.Job.DAG = er.dags[e.Job.DAG.Location]
                /\ DagId(e.Job.DAG.Location) \notin er.suspended
                /\ e.EntryType \in {"Start", "Stop", "Restart"}
                /\ e.Next > er.now
                /\ e.Next \in FireTimes(e.Job.Schedule)
                /\ \A f \in FireTimes(e.Job.Schedule) : f > er.now => e.Next <= f
                /\ e.Job.Next = e.Next
          /\ \A f \in DagKeys(er.dags), kind \in {"Start", "Stop", "Restart"}, sch \in Schedules :
                Cardinality(C22_Matching(er.entries, er.dags[f], kind, sch)) =
                    IF DagId(f) \in er.suspended THEN 0
                    ELSE Cardinality(C22_Positions(C22_List(er.dags[f], kind), sch)))
    /\ [][er'.dags = er.dags]_vars

C22_ReadWithSuspended ==
    /\ er.rpc = "read"
    /\ DagKeys(er.dags) = YamlFiles
    /\ er.suspended = {"a"}
    /\ er.dags["b.yml"].RestartSchedule # <<>>
    /\ Len(er.entries) = 4
    /\ er.now = Minute

\* the next Read has an entry for the DAG file
C23_Emitted(dags, name) ==
    \E ord \in MapOrders(DagKeys(dags)) :
        \E i \in DOMAIN ReadEntries(dags, {}, 0, ord) :
            ReadEntries(dags, {}, 0, ord)[i].Job.DAG.Location = name

\* C23: once the watcher has handled an event for a YAML file, the map (and so
\* the next Read) reflects it: an event carrying Create or Write whose
\* metadata loads leaves the new metadata under the base name, an event
\* carrying Rename or Remove leaves the base name absent and without entries
C23_EventsReflected ==
    [][(WatchEvent /\ IsYAMLFile(Head(er.events).Name)) =>
          LET e == Head(er.events) IN
          /\ (("Create" \in e.Op \/ "Write" \in e.Op) /\ e.Name \in DOMAIN er.disk) =>
                /\ e.Name \in DOMAIN er'.dags
                /\ er'.dags[e.Name] = LoadMetadata(e.Name, er.disk[e.Name])
                /\ C23_Emitted(er'.dags, e.Name)
          /\ ("Rename" \in e.Op \/ "Remove" \in e.Op) =>
                /\ e.Name \notin DOMAIN er'.dags
                /\ ~C23_Emitted(er'.dags, e.Name)]_vars

\* C24: a watcher that has stopped while done has not fired is started again
C24_WatcherRestarted ==
    (er.wpc = "exited" /\ ~er.done) ~> (er.wpc = "watching" \/ er.done)

\* C25: the restart command runs the new agent only after it has seen a
\* status other than Running, then slept RestartWait, then read the params of
\* the latest status, and runs with exactly those params; Stop is sent only on
\* seeing Running and never when the DAG was not running at first; the polling
\* loop ends once the DAG is no longer Running
C25_RestartOrdering ==
    /\ [](/\ cmd.pc \in {"wait", "params", "reload", "run", "ran"} => cmd.seenNotRunning
          /\ cmd.pc \in {"params", "reload", "run", "ran"} =>
                cmd.waitDone /\ cmd.sleptFor = cmd.restartWait
          /\ cmd.pc \in {"reload", "run", "ran"} =>
                cmd.paramsRead /\ cmd.params = cmd.latestParams
          /\ cmd.pc = "ran" => cmd.ranWith = cmd.latestParams
          /\ cmd.ranWith # "unread" => cmd.pc = "ran"
          /\ (cmd.firstSeen \notin {"unseen", "Running"}) => ~cmd.stopSent
          /\ cmd.pc = "sleep" => cmd.stopSent)
    /\ [][(cmd'.stopSent /\ ~cmd.stopSent) => cmd.target = "Running"]_vars
    /\ ((cmd.pc \in {"poll", "sleep"} /\ cmd.target # "Running")
            ~> (cmd.pc \notin {"poll", "sleep"}))

C25_RestartedAfterStop ==
    /\ cmd.pc = "ran"
    /\ cmd.stopSent
    /\ cmd.pollSlept = PollSleepMs
    /\ cmd.restartWait > 0
    /\ cmd.ranWith = "p1"

C27_DependenciesFirst ==
    /\ [](\A a \in Agents, n \in Steps :
            node[a][n] \in {"Running", "Success", "Error"} =>
                \A d \in depends[n] : node[a][d] \in {"Success", "Skipped"})
    /\ [][\A a \in Agents, n \in Steps :
            (node[a][n] = "None" /\ node'[a][n] \notin {"None", "Cancel"}) =>
                \A d \in depends[n] : node[a][d] \in {"Success", "Skipped"}]_vars

C27_SecondAfterFirst ==
    \E a \in Agents :
        /\ ~dry[a]
        /\ depends[2] = {1}
        /\ node[a][1] = "Success"
        /\ node[a][2] = "Running"

\* the handlers that have run
C28_Ran == {h \in HandlerNames : gr.hnode[h] \in {"Success", "Error"}}

\* C28: handlers run only once every node of the main graph is terminal; of
\* OnCancel, OnFailure, OnSuccess only the one matching the outcome runs
\* (cancel before failure before success), and it does run when configured;
\* OnExit, when configured, runs last on every outcome; after a fully
\* successful run with an exit handler Agent.Status shows OnExit as Success
\* and neither OnFailure nor OnCancel as executed
C28_HandlersAfterGraph ==
    /\ C28_Ran # {} => \A n \in Steps : gr.node[n] \in NodeTerminal
    /\ Cardinality(C28_Ran \ {"onExit"}) <= 1
    /\ "onCancel" \in C28_Ran => gr.canceled
    /\ "onFailure" \in C28_Ran => ~gr.canceled /\ \E n \in Steps : gr.node[n] = "Error"
    /\ "onSuccess" \in C28_Ran => ~gr.canceled /\ \A n \in Steps : gr.node[n] # "Error"
    /\ "onExit" \in C28_Ran => gr.pc = "done" /\ gr.order[Len(gr.order)] = "onExit"
    /\ gr.pc = "done" =>
          /\ "onExit" \in gr.HandlerOn => "onExit" \in C28_Ran
          /\ (gr.canceled /\ "onCancel" \in gr.HandlerOn) => "onCancel" \in C28_Ran
          /\ (~gr.canceled /\ (\E n \in Steps : gr.node[n] = "Error")
                /\ "onFailure" \in gr.HandlerOn) => "onFailure" \in C28_Ran
          /\ (~gr.canceled /\ (\A n \in Steps : gr.node[n] # "Error")
                /\ "onSuccess" \in gr.HandlerOn) => "onSuccess" \in C28_Ran
          /\ Len(gr.order) = Cardinality(C28_Ran)
    /\ (/\ gr.pc = "done"
        /\ "onExit" \in gr.HandlerOn
        /\ \A n \in Steps : gr.node[n] = "Success"
        /\ ~gr.canceled
        /\ \A h \in C28_Ran : gr.hnode[h] = "Success") =>
          /\ GrAgentStatus.Status = "Success"
          /\ GrAgentStatus.OnExit = "Success"
          /\ GrAgentStatus.OnFailure \in {"absent", "None"}
          /\ GrAgentStatus.OnCancel \in {"absent", "None"}

C28_ExitAfterFailureHandler ==
    /\ gr.pc = "done"
    /\ ~gr.retry
    /\ gr.HandlerOn = HandlerNames
    /\ gr.order = <<"onFailure", "onExit">>
    /\ GrAgentStatus.OnSuccess = "None"

\* C29: a retry run starts from the nodes of the retried status: nodes that
\* were Success (or Skipped) keep their state and are not executed again, the
\* failed and cancelled ones start over; when no re-executed step fails and
\* the run is not cancelled it ends Success with every node Success or Skipped
C29_RetryResumesFailed ==
    (gr.retry /\ gr.pc # "setup") =>
        /\ \A n \in Steps :
              /\ gr.seed[n] \in {"Success", "Skipped"} =>
                    gr.node[n] = gr.seed[n] /\ n \notin gr.ran
              /\ n \in gr.ran => gr.seed[n] \in {"Error", "Cancel"}
        /\ (/\ gr.pc \in {"handler", "exit", "done"}
            /\ ~gr.canceled
            /\ \A n \in Steps : gr.node[n] # "Error") =>
              /\ GrAgentStatus.Status = "Success"
              /\ \A n \in Steps : gr.node[n] \in {"Success", "Skipped"}

C29_RetriedToSuccess ==
    /\ gr.retry
    /\ gr.pc = "done"
    /\ gr.depends[2] = {1}
    /\ gr.seed[1] = "Success"
    /\ gr.seed[2] = "Error"
    /\ gr.ran = {2}
    /\ gr.node[2] = "Success"
    /\ GrAgentStatus.Status = "Success"

C31_CancelReachesScheduler ==
    (cx.pc = "suspended" /\ cx.callerDone) => CtxDone(cx.ctx)

\* C32: whenever Start consults prevExecTime (SkipIfSuccessful set, latest run
\* ended in Success and started before Next), prevExecTime is the latest fire time of
\* the schedule strictly before Next, also when the fire times are not evenly spaced
C32_PrevIsPreviousFire ==
    (/\ JobDecided
     /\ job.SkipIfSuccessful
     /\ job.latest.Status = "Success"
     /\ LastStart < job.Next)
    => PrevExecTime(job) = C20_PreviousFire

\* C33: when the latest status was read and is not Running and its StartedAt is "-"
\* or is no time at all, ready returns nil and Start calls Client.Start, whatever
\* SkipIfSuccessful and the status are
C33_NoHistoryStarts ==
    (/\ job.pc = "done"
     /\ ~job.clientErr
     /\ job.latest.Status # "Running"
     /\ job.latest.StartedAt.kind \in {"dash", "garbage"})
    => /\ JobReady(job) = "nil"
       /\ job.started = 1
       /\ job.result \in {"nil", "errStart"}

C33_UnparsedSuccessStarts ==
    /\ job.pc = "done"
    /\ ~job.clientErr
    /\ job.SkipIfSuccessful
    /\ job.latest.Status = "Success"
    /\ job.latest.StartedAt.kind = "garbage"
    /\ job.started = 1
    /\ job.result = "nil"

\* C34: the DAG-map lock is held only across the map mutation itself: it is not held
\* while the watcher is loading a file's metadata nor while Read is waiting for
\* Client.IsSuspended
C34_LockOnlyAcrossMutation ==
    /\ er.wpc = "loading" => er.lock # "watch"
    /\ er.rpc = "lookup" => er.lock # "read"

\* C35: the DAG map changes only by a successful load (the file's new metadata under
\* its name) or by a deletion: an event for a file that is no YAML file is dropped, a
\* Create / Write event whose load fails leaves the map as it was, so the DAG loaded
\* before stays in it and Read goes on adding its entries; at startup the map holds
\* exactly the YAML files of the listing that load
C35_OnlyLoadsAndDeletions ==
    /\ [](/\ er.wpc \in {"event", "loading", "loaded"} => IsYAMLFile(er.ev.Name)
          /\ er.rpc \in {"loop", "lookup"} =>
                /\ \A i \in DOMAIN er.todo : er.todo[i] \in DOMAIN er.dags
                /\ \A i \in DOMAIN er.seen : \E f \in DOMAIN er.dags : er.seen[i] = er.dags[f])
    /\ [][(er.pc = "ready" /\ er'.dags # er.dags) =>
            \/ /\ er.wpc = "loading"
               /\ er'.load.ok
               /\ er'.dags = Upsert(er.dags, er.ev.Name, LoadMetadata(er.ev.Name, er'.load.c))
            \/ /\ er.wpc = "loaded"
               /\ OpIs(er.ev.Op, "Rename") \/ OpIs(er.ev.Op, "Remove")
               /\ er'.dags = Delete(er.dags, er.ev.Name)]_vars
    /\ [][(er.wpc = "loading" /\ er'.wpc = "loaded" /\ ~er'.load.ok) =>
            er'.dags = er.dags]_vars
    /\ [][(er.pc = "new" /\ er'.pc = "ready") =>
            /\ DOMAIN er'.dags =
                  IF er.readDirOk
                  THEN {f \in er.dir : IsYAMLFile(f) /\ er.loads[f].ok}
                  ELSE {}
            /\ \A f \in DOMAIN er'.dags : er'.dags[f] = LoadMetadata(f, er.loads[f].c)]_vars

C35_FailedLoadKeepsDag ==
    /\ er.wpc = "loaded"
    /\ OpIs(er.ev.Op, "Write")
    /\ ~er.load.ok
    /\ er.ev.Name \in DOMAIN er.dags
    /\ er.dropped
    /\ er.rpc = "done"
    /\ Len(er.seen) = 2

\* C36: when Agent.Run has returned, whatever the return path, the run log file it
\* opened is closed, the history-store session it opened is closed and the control
\* socket it served is shut down
C36_ReleasedOnReturn ==
    \A a \in Agents :
        pc[a] = "returned" =>
            /\ logState[a] # "open"
            /\ hist[a].state # "open"
            /\ sockOwner # a

\* C37: no HistoryStore.Write of a run is called once its session has been closed
C37_NoWriteAfterClose ==
    [][\A a \in Agents :
          (WriteInitial(a) \/ WriterWrite(a) \/ FirstWrite(a) \/ FinalWrite(a)) =>
              hist[a].state # "closed"]_vars

\* C38: encodeError always answers with an HTTP error: an *httpError with its code
\* and message, any other error with 500; the call never panics
C38_AlwaysErrorResponse ==
    ee.pc = "encoded" =>
        /\ ~ee.res.panic
        /\ ee.err.kind \in {"httpError", "wrapped"} =>
              ee.res.code = ee.err.Code /\ ee.res.body = ee.err.Message
        /\ ee.err.kind = "other" => ee.res.code = 500

\* the number of backslashes standing immediately before position i
C39_BackslashRun(str, i) ==
    Cardinality({k \in 1..(i - 1) : \A j \in (i - k)..(i - 1) : str[j] = Backslash})

\* position i is escaped: an odd number of backslashes stands immediately before it
C39_Escaped(str, i) == C39_BackslashRun(str, i) % 2 = 1

\* position i lies inside backticks, inside double quotes
C39_InBacktick(str, i) ==
    Cardinality({j \in 1..(i - 1) : str[j] = Backtick /\ ~C39_Escaped(str, j)}) % 2 = 1
C39_InQuote(str, i) ==
    Cardinality({j \in 1..(i - 1) :
                    str[j] = Quote /\ ~C39_Escaped(str, j) /\ ~C39_InBacktick(str, j)}) % 2 = 1

C39_Outside(str, i) == ~C39_InQuote(str, i) /\ ~C39_InBacktick(str, i)

\* the pipes that end a segment
C39_Boundaries(str) ==
    {i \in DOMAIN str : str[i] = Pipe /\ C39_Outside(str, i) /\ ~C39_Escaped(str, i)}

\* the whitespace outside quotes and backticks; the same, not escaped
C39_SpacesOutside(str) == {i \in DOMAIN str : str[i] = Space /\ C39_Outside(str, i)}
C39_SpacesUnescaped(str) == {i \in C39_SpacesOutside(str) : ~C39_Escaped(str, i)}

\* the k-th smallest element of a set of numbers
C39_Kth(S, k) == CHOOSE x \in S : Cardinality({y \in S : y < x}) = k - 1

\* the pipeline of a string whose segments end at the positions bounds and whose
\* words are the maximal runs of positions outside breaks (bounds included)
C39_Expected(str, breaks, bounds) ==
    LET starts == {i \in DOMAIN str \ breaks : i = 1 \/ (i - 1) \in breaks}
        last(i) == CHOOSE e \in i..Len(str) :
                      /\ \A j \in i..e : j \notin breaks
                      /\ e = Len(str) \/ (e + 1) \in breaks
        seg(i) == Cardinality({b \in bounds : b < i})
        segIds == {seg(i) : i \in starts}
    IN [k \in 1..Cardinality(segIds) |->
          LET ws == {i \in starts : seg(i) = C39_Kth(segIds, k)}
          IN [m \in 1..Cardinality(ws) |->
                SubSeq(str, C39_Kth(ws, m), last(C39_Kth(ws, m)))]]

C39_NoEmptyNoPipe(pipeline) ==
    \A k \in DOMAIN pipeline :
        /\ pipeline[k] # <<>>
        /\ \A m \in DOMAIN pipeline[k] : pipeline[k][m] # <<>> /\ pipeline[k][m] # PipeToken

\* C39 as stated: the segments end at the pipes outside quotes and backticks that
\* are not escaped, the words are separated by every whitespace outside quotes and
\* backticks, no segment is empty and no word is the bare pipe
C39_SplitsAtOutsideSpaces ==
    cu.pc = "parsed" =>
        /\ cu.pipeline =
              C39_Expected(cu.def.v,
                           C39_Boundaries(cu.def.v) \cup C39_SpacesOutside(cu.def.v),
                           C39_Boundaries(cu.def.v))
        /\ C39_NoEmptyNoPipe(cu.pipeline)

\* C39 amended: the words are separated by the whitespace outside quotes and
\* backticks that is not escaped by a backslash; an escaped whitespace stays in its word
C39_SplitsAtUnescapedSpaces ==
    cu.pc = "parsed" =>
        /\ cu.pipeline =
              C39_Expected(cu.def.v,
                           C39_Boundaries(cu.def.v) \cup C39_SpacesUnescaped(cu.def.v),
                           C39_Boundaries(cu.def.v))
        /\ C39_NoEmptyNoPipe(cu.pipeline)

C39_EscapedSpaceInWord ==
    /\ cu.pc = "parsed"
    /\ cu.def.v = <<"a", Backslash, Space, "a">>
    /\ cu.pipeline = <<<<cu.def.v>>>>

\* the segments of the command string handed to SplitCommand
C40_Pipeline ==
    C39_Expected(cu.def.v,
                 C39_Boundaries(cu.def.v) \cup C39_SpacesUnescaped(cu.def.v),
                 C39_Boundaries(cu.def.v))

RECURSIVE C40_Offset(_, _)
\* where the "|" of segment k stands in args, less one
C40_Offset(P, k) ==
    IF k = 2 THEN Len(P[1]) - 1 ELSE C40_Offset(P, k - 1) + 1 + Len(P[k - 1])

\* C40: SplitCommand returns ErrCommandIsEmpty exactly for the strings that yield
\* no word (among them the empty string and the strings of spaces and pipes only);
\* otherwise the command is the first word of the first segment and args are its
\* other words followed, for each further segment in order, by "|" and its words.
\* buildCommand returns an error for the empty string and for a command that is
\* neither string nor array, and returns nil with the step as it was for no command
C40_SplitAndBuild ==
    /\ cu.pc = "split" =>
          LET P == C40_Pipeline
              r == cu.split
          IN /\ (r.err = ErrCommandIsEmpty) <=> (P = <<>>)
             /\ (\A i \in DOMAIN cu.def.v : cu.def.v[i] \in {Space, Pipe}) =>
                    r.err = ErrCommandIsEmpty
             /\ P # <<>> =>
                    /\ r.err = "nil"
                    /\ r.cmd = P[1][1]
                    /\ SubSeq(r.args, 1, Len(P[1]) - 1) = Tail(P[1])
                    /\ Len(r.args) = C40_Offset(P, Len(P) + 1)
                    /\ \A k \in 2..Len(P) :
                          /\ r.args[C40_Offset(P, k) + 1] = PipeToken
                          /\ SubSeq(r.args, C40_Offset(P, k) + 2,
                                    C40_Offset(P, k) + 1 + Len(P[k])) = P[k]
    /\ cu.pc = "built" =>
          /\ cu.def.t = "nil" => cu.err = "nil" /\ cu.step = NoCommand
          /\ (cu.def.t = "string" /\ cu.def.v = <<>>) => cu.err = "errStepCommandIsEmpty"
          /\ cu.def.t \notin {"nil", "string", "array"} =>
                cu.err = "errStepCommandMustBeArrayOrString"

C40_TwoSegments ==
    /\ cu.pc = "split"
    /\ cu.def.v = <<"a", Space, "a", Pipe, "a">>
    /\ cu.split = SplitResult("nil", <<"a">>, <<<<"a">>, PipeToken, <<"a">>>>)

====
